---- MODULE Spec2Model ----
(***************************************************************************)
(* socialscan: the query engine of src/socialscan (platforms.py, util.py,  *)
(* cli.py).  One run builds one checker per platform, fans the queries out *)
(* over the selected platforms as asyncio tasks and collects one result    *)
(* per task.  asyncio is cooperative: the code between two awaits of a     *)
(* task runs atomically, and a task is suspended only while an HTTP        *)
(* request is in flight.  Every action below is one such atomic stretch.   *)
(*                                                                         *)
(* Strings are sequences of one-character strings; platform messages are   *)
(* sequences of words.  An Optional value is a record [some, val].         *)
(***************************************************************************)
EXTENDS Integers, Sequences, FiniteSets, TLC

(* ------------------------------ bounds --------------------------------- *)
\* at most MaxQueries queries in a run
MaxQueries == 2
\* at most MaxLen characters in a message handed to a Response builder, and at
\* most MaxTaken entries in its list of taken-substrings
MaxLen == 3
MaxTaken == 2
\* at most MaxProxies entries in the proxy list given to execute_queries
MaxProxies == 2
\* at most MaxGroup Responses in a group handed to pretty_print
MaxGroup == 3
\* at most MaxCalls successive init_prerequest calls on one checker
MaxCalls == 3

(* ------------------------- strings and options ------------------------- *)
Lower == {"a","b","c","d","e","f","g","h","i","j","k","l","m",
          "n","o","p","q","r","s","t","u","v","w","x","y","z"}
Upper == {"A","B","C","D","E","F","G","H","I","J","K","L","M",
          "N","O","P","Q","R","S","T","U","V","W","X","Y","Z"}
Digit == {"0","1","2","3","4","5","6","7","8","9"}
AlNum == Lower \cup Upper \cup Digit

None == [some |-> FALSE, val |-> <<>>]
Some(v) == [some |-> TRUE, val |-> v]

SubStr(s, i, j) == [k \in 1..(j - i + 1) |-> s[i + k - 1]]

\* Python `x in message`, on sequences
Contains(message, x) ==
  \E i \in 0..(Len(message) - Len(x)) :
     \A k \in 1..Len(x) : message[i + k] = x[k]

(* --------------------------- util.EMAIL_REGEX -------------------------- *)
\* U+2019, the right single quotation mark the pattern lists (not the ASCII quote)
RSQUO == "U+2019"
\* the grave accent
BACKTICK == "U+0060"

LocalChars == AlNum \cup {".","!","#","$","%","&",RSQUO,"*","+","/","=","?",
                          "^","_",BACKTICK,"{","|","}","~","-"}

\* [a-zA-Z0-9](?:[a-zA-Z0-9-]{0,253}[a-zA-Z0-9])?
IsLabel(s) ==
  /\ Len(s) >= 1
  /\ Len(s) <= 255
  /\ s[1] \in AlNum
  /\ s[Len(s)] \in AlNum
  /\ \A k \in 1..Len(s) : s[k] \in AlNum \cup {"-"}

\* label(?:\.label)+ : every maximal dot-free piece is a label, and there is a dot
IsDomain(s) ==
  /\ \E k \in 1..Len(s) : s[k] = "."
  /\ \A i \in 1..Len(s) : \A j \in i..Len(s) :
        ( /\ (i = 1 \/ s[i - 1] = ".")
          /\ (j = Len(s) \/ s[j + 1] = ".")
          /\ \A k \in i..j : s[k] # "." )
        => IsLabel(SubStr(s, i, j))
  /\ s[1] # "."
  /\ s[Len(s)] # "."
  /\ \A k \in 1..(Len(s) - 1) : ~(s[k] = "." /\ s[k + 1] = ".")

\* `$` also matches just before a final newline
DropFinalNewline(s) ==
  IF Len(s) >= 1 /\ s[Len(s)] = "\n" THEN SubStr(s, 1, Len(s) - 1) ELSE s

EMAIL_REGEX_match_exact(s) ==
  \E at \in 1..Len(s) :
     /\ s[at] = "@"
     /\ at >= 2
     /\ \A k \in 1..(at - 1) : s[k] \in LocalChars
     /\ at < Len(s)
     /\ IsDomain(SubStr(s, at + 1, Len(s)))

EMAIL_REGEX_match(s) ==
  EMAIL_REGEX_match_exact(s) \/ EMAIL_REGEX_match_exact(DropFinalNewline(s))

(* ------------------------ platforms.Platforms -------------------------- *)
\* the Enum, in declaration order
PlatformList == <<"GITHUB", "GITLAB", "INSTAGRAM", "LASTFM", "PASTEBIN", "PINTEREST",
                  "REDDIT", "SNAPCHAT", "SPOTIFY", "TWITTER", "TUMBLR", "YAHOO", "FIREFOX">>
Platforms == {PlatformList[i] : i \in 1..Len(PlatformList)}

\* hasattr(platform.value, "check_username")
HasCheckUsername(p) ==
  p \in {"GITHUB", "GITLAB", "INSTAGRAM", "LASTFM", "PASTEBIN", "REDDIT",
         "SNAPCHAT", "TWITTER", "TUMBLR", "YAHOO"}

\* hasattr(platform.value, "check_email")
HasCheckEmail(p) ==
  p \in {"GITHUB", "INSTAGRAM", "LASTFM", "PASTEBIN", "PINTEREST",
         "SPOTIFY", "TWITTER", "TUMBLR", "FIREFOX"}

\* hasattr(platform.value, "prerequest")
HasPrerequest(p) ==
  p \in {"GITHUB", "INSTAGRAM", "LASTFM", "SNAPCHAT", "TUMBLR", "YAHOO"}

(* ----------------------- platforms.PlatformResponse -------------------- *)
ResponseFields == {"platform", "query", "available", "valid", "success", "message", "link"}

\* what a coroutine or a call ends with: a returned value (<<>> is Python's
\* None, <<v>> is the value v) or a raised exception
Return(v) == [kind |-> "return", val |-> <<v>>, exc |-> "", detail |-> <<>>]
ReturnNone == [kind |-> "return", val |-> <<>>, exc |-> "", detail |-> <<>>]
Raise(e, d) == [kind |-> "raise", val |-> <<>>, exc |-> e, detail |-> d]

\* the dataclass constructor: every field is required (none has a default)
PlatformResponse(kwargs) ==
  IF DOMAIN kwargs = ResponseFields
  THEN Return(kwargs)
  ELSE Raise("TypeError", <<"__init__()", "missing", "required", "argument">>)

TOKEN_ERROR_MESSAGE == <<"Could", "not", "retrieve", "token.", "Use", "a", "proxy", "or", "wait">>
TOO_MANY_REQUEST_ERROR_MESSAGE == <<"Requests", "denied", "by", "platform.", "Use", "a", "proxy", "or", "wait">>
UNEXPECTED_CONTENT_TYPE_ERROR_MESSAGE == <<"Unexpected", "content", "type", "{}.", "Use", "a", "proxy", "or", "wait">>

\* response_failure with valid left true
response_failure_valid(self, query, message) ==
  PlatformResponse([platform |-> self, query |-> query, available |-> FALSE,
                    valid |-> TRUE, success |-> FALSE, message |-> message, link |-> None])

response_failure(self, query, message) ==
  PlatformResponse([platform |-> self, query |-> query, available |-> FALSE,
                    valid |-> FALSE, success |-> FALSE, message |-> message, link |-> None])

response_available(self, query, message) ==
  PlatformResponse([platform |-> self, query |-> query, available |-> TRUE,
                    valid |-> TRUE, success |-> TRUE, message |-> message, link |-> None])

response_unavailable(self, query, message, link) ==
  PlatformResponse([platform |-> self, query |-> query, available |-> FALSE,
                    valid |-> TRUE, success |-> TRUE, message |-> message, link |-> link])

response_invalid(self, query, message) ==
  PlatformResponse([platform |-> self, query |-> query, available |-> FALSE,
                    valid |-> FALSE, success |-> TRUE, message |-> message, link |-> None])

\* response_unavailable_or_invalid testing the first entry of the list only
response_unavailable_or_invalid_first(self, query, message, unavailable_messages, link) ==
  IF Len(unavailable_messages) > 0 /\ Contains(message, unavailable_messages[1])
  THEN response_unavailable(self, query, message, link)
  ELSE response_invalid(self, query, message)

\* response_unavailable_or_invalid that hands its link to the Invalid Response too
response_unavailable_or_invalid_linked(self, query, message, unavailable_messages, link) ==
  IF \E i \in 1..Len(unavailable_messages) : Contains(message, unavailable_messages[i])
  THEN response_unavailable(self, query, message, link)
  ELSE PlatformResponse([platform |-> self, query |-> query, available |-> FALSE,
                         valid |-> FALSE, success |-> TRUE, message |-> message,
                         link |-> link])

\* any(x in message for x in unavailable_messages)
response_unavailable_or_invalid(self, query, message, unavailable_messages, link) ==
  IF \E i \in 1..Len(unavailable_messages) : Contains(message, unavailable_messages[i])
  THEN response_unavailable(self, query, message, link)
  ELSE response_invalid(self, query, message)

\* the keyword defaults of the builders
MsgFailure == <<"Failure">>
MsgAvailable == <<"Available">>
MsgUnavailable == <<"Unavailable">>
MsgInvalid == <<"Invalid">>

\* LINK_FORMAT.format(query): the fixed part as one element, then the query
FormatLink(prefix, query, suffix) == Some(<<prefix>> \o query \o <<suffix>>)

(* ----------------------------- HTTP replies ---------------------------- *)
\* what one request ends with: a transport failure (net = "error": aiohttp
\* raises a ClientError; the connect timeout of client_timeout, the one timeout
\* the requests are given, is one: ServerTimeoutError), or a reply with a status, a content type, a parsed
\* JSON body (a record; <<>> is the empty object) and a text body
NetError == [net |-> "error", status |-> 0, json |-> FALSE, body |-> <<>>, text |-> <<>>]
Json(b) == [net |-> "ok", status |-> 200, json |-> TRUE, body |-> b, text |-> <<>>]
Html(st, t) == [net |-> "ok", status |-> st, json |-> FALSE, body |-> <<>>, text |-> t]

\* PlatformChecker.get_json: the body, or QueryError for another content type
get_json_raises(r) == ~r.json
UnexpectedContent == Raise("QueryError", UNEXPECTED_CONTENT_TYPE_ERROR_MESSAGE)
KeyError(k) == Raise("KeyError", <<k>>)
IndexError == Raise("IndexError", <<"list", "index", "out", "of", "range">>)
Has(d, k) == k \in DOMAIN d

(* ------------------------------ Snapchat ------------------------------- *)
Snapchat_USERNAME_TAKEN_MSGS ==
  << <<"is", "already", "taken">>, <<"is", "currently", "unavailable">> >>

Snapchat_check_username(username, r) ==
  IF get_json_raises(r) THEN UnexpectedContent
  ELSE LET json_body == r.body IN
    IF ~Has(json_body, "reference") THEN KeyError("reference")
    ELSE IF Has(json_body.reference, "error_message")
    THEN response_unavailable_or_invalid("SNAPCHAT", username,
            json_body.reference.error_message, Snapchat_USERNAME_TAKEN_MSGS, None)
    ELSE IF ~Has(json_body.reference, "status_code") THEN KeyError("status_code")
    ELSE IF json_body.reference.status_code = "OK"
    THEN response_available("SNAPCHAT", username, MsgAvailable)
    ELSE ReturnNone

Snapchat_replies ==
  << Json([reference |-> [error_message |-> <<"bob", "is", "already", "taken">>]]),
     Json([reference |-> [error_message |-> <<"too", "short">>]]),
     Json([reference |-> [status_code |-> "OK"]]),
     Json([reference |-> [status_code |-> "ERROR"]]),
     Json(<<>>) >>

(* ------------------------------ Instagram ------------------------------ *)
Instagram_USERNAME_TAKEN_MSGS ==
  << <<"This", "username", "isn't", "available.">>,
     <<"A", "user", "with", "that", "username", "already", "exists.">> >>

Instagram_check_username(username, r) ==
  IF get_json_raises(r) THEN UnexpectedContent
  ELSE LET json_body == r.body IN
    IF ~Has(json_body, "status") THEN KeyError("status")
    ELSE IF json_body.status = "fail"
    THEN IF ~Has(json_body, "message") THEN KeyError("message")
         ELSE response_failure("INSTAGRAM", username, json_body.message)
    ELSE IF ~Has(json_body, "errors") THEN KeyError("errors")
    ELSE IF Has(json_body.errors, "username")
    THEN response_unavailable_or_invalid("INSTAGRAM", username,
            json_body.errors.username[1].message, Instagram_USERNAME_TAKEN_MSGS,
            FormatLink("https://www.instagram.com/", username, ""))
    ELSE response_available("INSTAGRAM", username, MsgAvailable)

Instagram_check_email(email, r) ==
  IF get_json_raises(r) THEN UnexpectedContent
  ELSE LET json_body == r.body IN
    IF ~Has(json_body, "status") THEN KeyError("status")
    ELSE IF json_body.status = "fail"
    THEN IF ~Has(json_body, "message") THEN KeyError("message")
         ELSE response_failure("INSTAGRAM", email, json_body.message)
    ELSE IF ~Has(json_body, "errors") THEN KeyError("errors")
    ELSE IF ~Has(json_body.errors, "email")
    THEN response_available("INSTAGRAM", email, MsgAvailable)
    ELSE LET message == json_body.errors.email[1].message IN
         IF json_body.errors.email[1].code = "invalid_email"
         THEN response_invalid("INSTAGRAM", email, message)
         ELSE response_unavailable("INSTAGRAM", email, message, None)

Instagram_username_replies ==
  << Json([status |-> "fail", message |-> <<"Please", "wait", "a", "few", "minutes">>]),
     Json([status |-> "fail"]),
     Json([status |-> "ok", errors |->
            [username |-> << [message |-> <<"This", "username", "isn't", "available.">>,
                              code |-> "username_is_taken"] >>]]),
     Json([status |-> "ok", errors |->
            [username |-> << [message |-> <<"Usernames", "can", "only", "use", "letters">>,
                              code |-> "username_has_special_char"] >>]]),
     Json([status |-> "ok", errors |-> <<>>]),
     Json([status |-> "ok"]) >>

Instagram_email_replies ==
  << Json([status |-> "fail", message |-> <<"Please", "wait", "a", "few", "minutes">>]),
     Json([status |-> "ok", errors |->
            [email |-> << [message |-> <<"Another", "account", "is", "using", "it">>,
                           code |-> "email_is_taken"] >>]]),
     Json([status |-> "ok", errors |->
            [email |-> << [message |-> <<"Enter", "a", "valid", "email", "address.">>,
                           code |-> "invalid_email"] >>]]),
     Json([status |-> "ok", errors |-> <<>>]),
     Json(<<>>) >>

(* ------------------------------- GitHub -------------------------------- *)
GitHub_USERNAME_TAKEN_MSGS ==
  << <<"already", "taken">>, <<"unavailable">>, <<"not", "available">> >>

\* tag_regex.sub("", text).strip(): the markup tags are dropped
IsTag(w) == w \in {"<div>", "</div>", "<p>", "</p>"}
StripTags(text) == SelectSeq(text, LAMBDA w : ~IsTag(w))

\* GitHub_check_username without the branch for status 429
GitHub_check_username_no_429(username, r) ==
  IF r.status = 422
  THEN response_unavailable_or_invalid("GITHUB", username, StripTags(r.text),
          GitHub_USERNAME_TAKEN_MSGS, FormatLink("https://github.com/", username, ""))
  ELSE IF r.status = 200 THEN response_available("GITHUB", username, MsgAvailable)
  ELSE ReturnNone

GitHub_check_username(username, r) ==
  IF r.status = 422
  THEN response_unavailable_or_invalid("GITHUB", username, StripTags(r.text),
          GitHub_USERNAME_TAKEN_MSGS, FormatLink("https://github.com/", username, ""))
  ELSE IF r.status = 200 THEN response_available("GITHUB", username, MsgAvailable)
  ELSE IF r.status = 429
  THEN response_failure("GITHUB", username, TOO_MANY_REQUEST_ERROR_MESSAGE)
  ELSE ReturnNone

GitHub_check_email(email, r) ==
  IF r.status = 422 THEN response_unavailable("GITHUB", email, r.text, None)
  ELSE IF r.status = 200 THEN response_available("GITHUB", email, MsgAvailable)
  ELSE IF r.status = 429
  THEN response_failure("GITHUB", email, TOO_MANY_REQUEST_ERROR_MESSAGE)
  ELSE ReturnNone

GitHub_username_replies ==
  << Html(422, <<"<div>", "Username", "is", "already", "taken", "</div>">>),
     Html(422, <<"<div>", "Username", "may", "only", "contain", "alphanumerics", "</div>">>),
     Html(200, <<>>),
     Html(429, <<>>),
     Html(500, <<>>) >>

GitHub_email_replies ==
  << Html(422, <<"Email", "is", "invalid", "or", "already", "taken">>),
     Html(200, <<>>),
     Html(429, <<>>),
     Html(403, <<>>) >>

(* ------------------------------- Tumblr -------------------------------- *)
Tumblr_USERNAME_TAKEN_MSGS ==
  << <<"That's", "a", "good", "one,", "but", "it's", "taken">>,
     <<"Someone", "beat", "you", "to", "that", "username">>,
     <<"Try", "something", "else,", "that", "one", "is", "spoken", "for">> >>

SAMPLE_UNUSED_USERNAME ==
  <<"a","k","c","2","r","W","3","3","A","u","S","q","Q","W","Y","8">>
SAMPLE_UNUSED_EMAIL == SAMPLE_UNUSED_USERNAME \o <<"@","g","m","a","i","l",".","c","o","m">>

Tumblr_EMAIL_IN_USE == <<"This", "email", "address", "is", "already", "in", "use.">>
Tumblr_EMAIL_INCORRECT ==
  <<"This", "email", "address", "isn't", "correct.", "Please", "try", "again.">>

\* `x in json_body["errors"]` on a list
InList(x, list) == \E i \in 1..Len(list) : list[i] = x

\* query = email if username == Tumblr.SAMPLE_UNUSED_USERNAME else username
Tumblr_query(email, username) ==
  IF username = SAMPLE_UNUSED_USERNAME THEN email ELSE username

Tumblr_check(email, username, r) ==
  LET query == Tumblr_query(email, username) IN
  IF get_json_raises(r) THEN UnexpectedContent
  ELSE LET json_body == r.body IN
    IF username = query
    THEN IF Has(json_body, "usernames") \/ ~Has(json_body, "errors")
              \/ Len(json_body.errors) > 0
         THEN IF ~Has(json_body, "errors") THEN KeyError("errors")
              ELSE IF Len(json_body.errors) = 0 THEN IndexError
              ELSE response_unavailable_or_invalid("TUMBLR", query, json_body.errors[1],
                      Tumblr_USERNAME_TAKEN_MSGS, FormatLink("https://", query, ".tumblr.com"))
         ELSE response_available("TUMBLR", query, MsgAvailable)
    ELSE IF email = query
    THEN IF ~Has(json_body, "errors") THEN KeyError("errors")
         ELSE IF InList(Tumblr_EMAIL_IN_USE, json_body.errors)
         THEN response_unavailable("TUMBLR", query, json_body.errors[1], None)
         ELSE IF InList(Tumblr_EMAIL_INCORRECT, json_body.errors)
         THEN response_invalid("TUMBLR", query, json_body.errors[1])
         ELSE IF Len(json_body.errors) = 0
         THEN response_available("TUMBLR", query, MsgAvailable)
         ELSE ReturnNone
    ELSE ReturnNone

\* check_username: _check(username=username); check_email: _check(email=email)
Tumblr_check_username(username, r) == Tumblr_check(SAMPLE_UNUSED_EMAIL, username, r)
Tumblr_check_email(email, r) == Tumblr_check(email, SAMPLE_UNUSED_USERNAME, r)

Tumblr_replies ==
  << Json([errors |-> << <<"That's", "a", "good", "one,", "but", "it's", "taken">> >>,
           usernames |-> << <<"b", "o", "b", "1">> >>]),
     Json([errors |-> << <<"Letters", "and", "numbers", "only">> >>]),
     Json([errors |-> << Tumblr_EMAIL_IN_USE >>]),
     Json([errors |-> << Tumblr_EMAIL_INCORRECT >>]),
     Json([errors |-> <<>>]),
     Json([errors |-> <<>>, usernames |-> << <<"b", "o", "b", "1">> >>]),
     Json(<<>>) >>

(* ------------------------------- GitLab -------------------------------- *)
\* re.fullmatch(r"[a-zA-Z0-9_\.][a-zA-Z0-9_\-\.]*[a-zA-Z0-9_\-]|[a-zA-Z0-9_]", username)
GitLab_username_matches(username) ==
  \/ /\ Len(username) >= 2
     /\ username[1] \in AlNum \cup {"_", "."}
     /\ username[Len(username)] \in AlNum \cup {"_", "-"}
     /\ \A k \in 2..(Len(username) - 1) : username[k] \in AlNum \cup {"_", "-", "."}
  \/ /\ Len(username) = 1
     /\ username[1] \in AlNum \cup {"_"}

GitLab_INVALID_MESSAGE ==
  <<"Please", "create", "a", "username", "with", "only", "alphanumeric", "characters.">>

\* the part of check_username before the request
GitLab_local_invalid(username) ==
  response_invalid("GITLAB", username, GitLab_INVALID_MESSAGE)

GitLab_check_username(username, r) ==
  IF r.status = 401
  THEN response_unavailable("GITLAB", username, MsgUnavailable,
          FormatLink("https://gitlab.com/", username, ""))
  ELSE IF get_json_raises(r) THEN UnexpectedContent
  ELSE LET json_body == r.body IN
    IF ~Has(json_body, "exists") THEN KeyError("exists")
    ELSE IF json_body.exists
    THEN response_unavailable("GITLAB", username, MsgUnavailable,
            FormatLink("https://gitlab.com/", username, ""))
    ELSE response_available("GITLAB", username, MsgAvailable)

GitLab_replies ==
  << Html(401, <<>>),
     Json([exists |-> TRUE]),
     Json([exists |-> FALSE]),
     Json(<<>>) >>

(* ------------------------------- Reddit -------------------------------- *)
Reddit_USERNAME_TAKEN_MSGS ==
  << <<"that", "username", "is", "already", "taken">>,
     <<"that", "username", "is", "taken", "by", "a", "deleted", "account">> >>

Reddit_check_username(username, r) ==
  IF get_json_raises(r) THEN UnexpectedContent
  ELSE LET json_body == r.body IN
    IF Has(json_body, "error") /\ json_body.error = 429
    THEN response_failure("REDDIT", username, TOO_MANY_REQUEST_ERROR_MESSAGE)
    ELSE IF Has(json_body, "json")
    THEN IF ~Has(json_body.json, "errors") THEN KeyError("errors")
         ELSE IF Len(json_body.json.errors) = 0 THEN IndexError
         ELSE response_unavailable_or_invalid("REDDIT", username,
                 json_body.json.errors[1][2], Reddit_USERNAME_TAKEN_MSGS,
                 FormatLink("https://www.reddit.com/u/", username, ""))
    ELSE IF DOMAIN json_body = {} THEN response_available("REDDIT", username, MsgAvailable)
    ELSE ReturnNone

Reddit_replies ==
  << Json([error |-> 429, message |-> <<"Too", "Many", "Requests">>]),
     Json([error |-> 403, message |-> <<"Forbidden">>]),
     Json([json |-> [errors |-> << << <<"USERNAME_TAKEN">>,
                                      <<"that", "username", "is", "already", "taken">>,
                                      <<"user">> >> >>]]),
     Json([json |-> [errors |-> << << <<"BAD_USERNAME">>,
                                      <<"invalid", "user", "name">>,
                                      <<"user">> >> >>]]),
     Json([json |-> [errors |-> <<>>]]),
     Json(<<>>) >>

(* ------------------------------- Twitter ------------------------------- *)
Twitter_USERNAME_TAKEN_MSGS ==
  << <<"That", "username", "has", "been", "taken">>, <<"unavailable">> >>

Twitter_check_username(username, r) ==
  IF get_json_raises(r) THEN UnexpectedContent
  ELSE LET json_body == r.body IN
    IF ~Has(json_body, "desc") THEN KeyError("desc")
    ELSE IF ~Has(json_body, "valid") THEN KeyError("valid")
    ELSE IF json_body.valid
    THEN response_available("TWITTER", username, json_body.desc)
    ELSE response_unavailable_or_invalid("TWITTER", username, json_body.desc,
            Twitter_USERNAME_TAKEN_MSGS, FormatLink("https://twitter.com/", username, ""))

Twitter_check_email(email, r) ==
  IF get_json_raises(r) THEN UnexpectedContent
  ELSE LET json_body == r.body IN
    IF ~Has(json_body, "msg") THEN KeyError("msg")
    ELSE IF ~Has(json_body, "valid") THEN KeyError("valid")
    ELSE IF ~Has(json_body, "taken") THEN KeyError("taken")
    ELSE IF ~json_body.valid /\ ~json_body.taken
    THEN response_invalid("TWITTER", email, json_body.msg)
    ELSE IF json_body.taken
    THEN response_unavailable("TWITTER", email, json_body.msg, None)
    ELSE response_available("TWITTER", email, json_body.msg)

Twitter_username_replies ==
  << Json([valid |-> TRUE, desc |-> <<"Available!">>]),
     Json([valid |-> FALSE, desc |-> <<"That", "username", "has", "been", "taken">>]),
     Json([valid |-> FALSE, desc |-> <<"Only", "use", "letters,", "numbers", "and", "'_'">>]),
     Json([valid |-> FALSE]) >>

Twitter_email_replies ==
  << Json([valid |-> TRUE, taken |-> FALSE, msg |-> <<"Available!">>]),
     Json([valid |-> FALSE, taken |-> TRUE, msg |-> <<"Email", "has", "already", "been", "taken.">>]),
     Json([valid |-> FALSE, taken |-> FALSE, msg |-> <<"This", "email", "is", "invalid.">>]),
     Json([valid |-> FALSE, msg |-> <<"This", "email", "is", "invalid.">>]) >>

(* ------------------------------- Pastebin ------------------------------ *)
Pastebin_USERNAME_TAKEN_MSGS == << <<"Username", "not", "available!">> >>
Pastebin_INVALID_EMAIL == <<"Please", "use", "a", "valid", "email", "address.">>

FontRed == "<font color=\"red\">"
FontGreen == "<font color=\"green\">"
FontEnd == "</font>"

\* regex.match(text) for ^<font color="(red|green)">([^<>]+)</font>$
Pastebin_regex_matches(text) ==
  /\ Len(text) >= 3
  /\ text[1] \in {FontRed, FontGreen}
  /\ text[Len(text)] = FontEnd
  /\ \A k \in 2..(Len(text) - 1) : text[k] \notin {FontRed, FontGreen, FontEnd} /\ ~IsTag(text[k])

Pastebin_check(query, is_email, r) ==
  IF ~Pastebin_regex_matches(r.text)
  THEN response_failure("PASTEBIN", query, UNEXPECTED_CONTENT_TYPE_ERROR_MESSAGE)
  ELSE LET message == SubStr(r.text, 2, Len(r.text) - 1) IN
    IF r.text[1] = FontGreen THEN response_available("PASTEBIN", query, message)
    ELSE IF is_email
    THEN IF message = Pastebin_INVALID_EMAIL
         THEN response_invalid("PASTEBIN", query, message)
         ELSE response_unavailable("PASTEBIN", query, message, None)
    ELSE response_unavailable_or_invalid("PASTEBIN", query, message,
            Pastebin_USERNAME_TAKEN_MSGS, FormatLink("https://pastebin.com/u/", query, ""))

Pastebin_check_username(username, r) == Pastebin_check(username, FALSE, r)
Pastebin_check_email(email, r) == Pastebin_check(email, TRUE, r)

Pastebin_replies ==
  << Html(200, <<FontGreen, "Username", "available!", FontEnd>>),
     Html(200, <<FontRed, "Username", "not", "available!", FontEnd>>),
     Html(200, <<FontRed, "Username", "contains", "invalid", "characters", FontEnd>>),
     Html(200, <<FontRed, "Please", "use", "a", "valid", "email", "address.", FontEnd>>),
     Html(200, <<FontRed, "Email", "not", "available!", FontEnd>>),
     Html(200, <<"<p>", "Please", "complete", "the", "captcha", "</p>">>),
     Html(503, <<>>) >>

(* ------------------------------ Pinterest ------------------------------ *)
Pinterest_check_email(email, r) ==
  IF get_json_raises(r) THEN UnexpectedContent
  ELSE LET json_body == r.body IN
    IF ~Has(json_body, "resource_response") THEN KeyError("resource_response")
    ELSE IF ~Has(json_body.resource_response, "data") THEN KeyError("data")
    ELSE IF json_body.resource_response.data
    THEN response_unavailable("PINTEREST", email, MsgUnavailable, None)
    ELSE response_available("PINTEREST", email, MsgAvailable)

Pinterest_replies ==
  << Json([resource_response |-> [data |-> TRUE]]),
     Json([resource_response |-> [data |-> FALSE]]),
     Json([resource_response |-> [error |-> TRUE]]),
     Json(<<>>) >>

(* ------------------------------- Lastfm -------------------------------- *)
Lastfm_USERNAME_TAKEN_MSGS == << <<"Sorry,", "this", "username", "isn't", "available.">> >>

\* username="" and email="" are the defaults of _check; `if email:` is truth of a string
Lastfm_check(username, email, r) ==
  IF get_json_raises(r) THEN UnexpectedContent
  ELSE LET json_body == r.body IN
    IF Len(email) > 0
    THEN IF ~Has(json_body, "email") THEN KeyError("email")
         ELSE IF json_body.email.valid
         THEN response_available("LASTFM", email, json_body.email.success_message)
         ELSE IF Len(json_body.email.error_messages) = 0 THEN IndexError
         ELSE response_unavailable("LASTFM", email, json_body.email.error_messages[1], None)
    ELSE IF Len(username) > 0
    THEN IF ~Has(json_body, "userName") THEN KeyError("userName")
         ELSE IF json_body.userName.valid
         THEN response_available("LASTFM", username, json_body.userName.success_message)
         ELSE IF Len(json_body.userName.error_messages) = 0 THEN IndexError
         ELSE response_unavailable_or_invalid("LASTFM", username,
                 StripTags(json_body.userName.error_messages[1]),
                 Lastfm_USERNAME_TAKEN_MSGS, FormatLink("https://www.last.fm/user/", username, ""))
    ELSE ReturnNone

Lastfm_check_email(email, r) == Lastfm_check(<<>>, email, r)
Lastfm_check_username(username, r) == Lastfm_check(username, <<>>, r)

Lastfm_field(valid, ok, errs) ==
  [valid |-> valid, success_message |-> ok, error_messages |-> errs]

Lastfm_replies ==
  << Json([userName |-> Lastfm_field(TRUE, <<"OK">>, <<>>),
           email |-> Lastfm_field(TRUE, <<"OK">>, <<>>)]),
     Json([userName |-> Lastfm_field(FALSE, <<>>,
                          << <<"<p>", "Sorry,", "this", "username", "isn't", "available.", "</p>">> >>),
           email |-> Lastfm_field(FALSE, <<>>, << <<"Sorry,", "that", "email", "is", "taken.">> >>)]),
     Json([userName |-> Lastfm_field(FALSE, <<>>, << <<"Sorry,", "that", "is", "too", "short.">> >>),
           email |-> Lastfm_field(FALSE, <<>>, <<>>)]),
     Json(<<>>) >>

(* ------------------------------- Spotify ------------------------------- *)
Spotify_check_email(email, r) ==
  IF get_json_raises(r) THEN UnexpectedContent
  ELSE LET json_body == r.body IN
    IF ~Has(json_body, "status") THEN KeyError("status")
    ELSE IF json_body.status = 1 THEN response_available("SPOTIFY", email, MsgAvailable)
    ELSE IF ~Has(json_body, "errors") THEN KeyError("errors")
    ELSE IF json_body.status = 20
    THEN response_unavailable("SPOTIFY", email, json_body.errors.email, None)
    ELSE response_failure("SPOTIFY", email, json_body.errors.email)

Spotify_replies ==
  << Json([status |-> 1]),
     Json([status |-> 20, errors |-> [email |-> <<"That", "email", "is", "already", "registered">>]]),
     Json([status |-> 130, errors |-> [email |-> <<"Too", "many", "requests">>]]),
     Json([status |-> 130]) >>

(* -------------------------------- Yahoo -------------------------------- *)
Yahoo_known_errors == {"IDENTIFIER_EXISTS", "RESERVED_WORD_PRESENT", "FIELD_EMPTY",
                       "SOME_SPECIAL_CHARACTERS_NOT_ALLOWED", "LENGTH_TOO_SHORT"}

\* error_messages.get(error, error.replace("_", " ").capitalize())
Yahoo_error_pretty(error) ==
  IF error \in Yahoo_known_errors THEN <<"error_messages", error>>
  ELSE <<"capitalize", "replace", error>>

Yahoo_check_username(username, r) ==
  IF get_json_raises(r) THEN UnexpectedContent
  ELSE LET json_body == r.body IN
    IF ~Has(json_body, "errors") THEN KeyError("errors")
    ELSE IF Len(json_body.errors) < 3 THEN IndexError
    ELSE IF json_body.errors[3].name # "yid"
    THEN response_available("YAHOO", username, MsgAvailable)
    ELSE LET error == json_body.errors[3].error IN
         IF error = "IDENTIFIER_EXISTS" \/ error = "RESERVED_WORD_PRESENT"
         THEN response_unavailable("YAHOO", username, Yahoo_error_pretty(error), None)
         ELSE response_invalid("YAHOO", username, Yahoo_error_pretty(error))

Yahoo_err(n, e) == [name |-> n, error |-> e]
Yahoo_other == << Yahoo_err("firstName", "FIELD_EMPTY"), Yahoo_err("lastName", "FIELD_EMPTY") >>

Yahoo_replies ==
  << Json([errors |-> Yahoo_other \o << Yahoo_err("password", "FIELD_EMPTY") >>]),
     Json([errors |-> Yahoo_other \o << Yahoo_err("yid", "IDENTIFIER_EXISTS") >>]),
     Json([errors |-> Yahoo_other \o << Yahoo_err("yid", "LENGTH_TOO_SHORT") >>]),
     Json([errors |-> Yahoo_other \o << Yahoo_err("yid", "SOMETHING_NEW") >>]),
     Json([errors |-> Yahoo_other]),
     Json(<<>>) >>

(* ------------------------------- Firefox ------------------------------- *)
Firefox_check_email(email, r) ==
  IF get_json_raises(r) THEN UnexpectedContent
  ELSE LET json_body == r.body IN
    IF Has(json_body, "error")
    THEN IF ~Has(json_body, "message") THEN KeyError("message")
         ELSE response_failure("FIREFOX", email, json_body.message)
    ELSE IF ~Has(json_body, "exists") THEN KeyError("exists")
    ELSE IF json_body.exists THEN response_unavailable("FIREFOX", email, MsgUnavailable, None)
    ELSE response_available("FIREFOX", email, MsgAvailable)

Firefox_replies ==
  << Json([exists |-> TRUE]),
     Json([exists |-> FALSE]),
     Json([error |-> <<"Bad", "Request">>, message |-> <<"Invalid", "parameter">>]),
     Json(<<>>) >>

(* --------------------------- capability table -------------------------- *)
\* checkers[platform].check_username(query_), from the reply of its probe on
check_username(p, username, r) ==
  CASE p = "GITHUB" -> GitHub_check_username(username, r)
    [] p = "GITLAB" -> GitLab_check_username(username, r)
    [] p = "INSTAGRAM" -> Instagram_check_username(username, r)
    [] p = "LASTFM" -> Lastfm_check_username(username, r)
    [] p = "PASTEBIN" -> Pastebin_check_username(username, r)
    [] p = "REDDIT" -> Reddit_check_username(username, r)
    [] p = "SNAPCHAT" -> Snapchat_check_username(username, r)
    [] p = "TWITTER" -> Twitter_check_username(username, r)
    [] p = "TUMBLR" -> Tumblr_check_username(username, r)
    [] p = "YAHOO" -> Yahoo_check_username(username, r)

\* checkers[platform].check_email(query_), from the reply of its probe on
check_email(p, email, r) ==
  CASE p = "GITHUB" -> GitHub_check_email(email, r)
    [] p = "INSTAGRAM" -> Instagram_check_email(email, r)
    [] p = "LASTFM" -> Lastfm_check_email(email, r)
    [] p = "PASTEBIN" -> Pastebin_check_email(email, r)
    [] p = "PINTEREST" -> Pinterest_check_email(email, r)
    [] p = "SPOTIFY" -> Spotify_check_email(email, r)
    [] p = "TWITTER" -> Twitter_check_email(email, r)
    [] p = "TUMBLR" -> Tumblr_check_email(email, r)
    [] p = "FIREFOX" -> Firefox_check_email(email, r)

\* the replies a probe of the capability can get, besides a transport failure
ProbeReplies(p, cap) ==
  ( CASE p = "GITHUB" -> IF cap = "check_email" THEN GitHub_email_replies
                         ELSE GitHub_username_replies
      [] p = "GITLAB" -> GitLab_replies
      [] p = "INSTAGRAM" -> IF cap = "check_email" THEN Instagram_email_replies
                            ELSE Instagram_username_replies
      [] p = "LASTFM" -> Lastfm_replies
      [] p = "PASTEBIN" -> Pastebin_replies
      [] p = "PINTEREST" -> Pinterest_replies
      [] p = "REDDIT" -> Reddit_replies
      [] p = "SNAPCHAT" -> Snapchat_replies
      [] p = "SPOTIFY" -> Spotify_replies
      [] p = "TWITTER" -> IF cap = "check_email" THEN Twitter_email_replies
                          ELSE Twitter_username_replies
      [] p = "TUMBLR" -> Tumblr_replies
      [] p = "YAHOO" -> Yahoo_replies
      [] p = "FIREFOX" -> Firefox_replies )
  \o << Html(200, <<"<p>", "Too", "many", "requests", "</p>">>), NetError >>

\* aiohttp raises a ClientError out of `async with self.get/post(...)`
ClientError == Raise("ClientError", <<"Cannot", "connect", "to", "host">>)

\* the capability's code after its probe's reply
Capability_result(p, cap, query_, r) ==
  IF r.net = "error" THEN ClientError
  ELSE IF cap = "check_email" THEN check_email(p, query_, r)
  ELSE check_username(p, query_, r)

(* ------------------------------ util.query ----------------------------- *)
\* query_routing with the `not is_email` test of the elif dropped
query_routing_any_shape(query_, p) ==
  LET is_email == EMAIL_REGEX_match(query_) IN
  IF is_email /\ HasCheckEmail(p) THEN "check_email"
  ELSE IF HasCheckUsername(p) THEN "check_username"
  ELSE ""

\* the branch query() takes: which capability it awaits, "" for neither
query_routing(query_, p) ==
  LET is_email == EMAIL_REGEX_match(query_) IN
  IF is_email /\ HasCheckEmail(p) THEN "check_email"
  ELSE IF ~is_email /\ HasCheckUsername(p) THEN "check_username"
  ELSE ""

\* the except clause: PlatformResponse(...) built without `link`
query_except(p, query_, e) ==
  PlatformResponse([platform |-> p, query |-> query_, available |-> FALSE,
                    valid |-> FALSE, success |-> FALSE,
                    message |-> <<e.exc, "-">> \o e.detail])

\* what query() ends with, given what the awaited capability ended with
query_result(p, query_, outcome) ==
  LET raised == IF outcome.kind = "return" /\ outcome.val = <<>>
                THEN Raise("QueryError", <<"Error", "retrieving", "result">>)
                ELSE outcome
  IN IF raised.kind = "raise" /\ raised.exc \in {"ClientError", "KeyError", "QueryError"}
     THEN query_except(p, query_, raised)
     ELSE raised

(* ------------------------------- the run ------------------------------- *)
VARIABLES
  queries,           \* the run's queries, in order
  platforms,         \* the selected platforms, in order
  cache_tokens,      \* args.cache_tokens: prime the tokens before the batch
  checkers,          \* platform -> [request_count, prerequest_sent, token]
  tasks,             \* the coroutines of the run: init_prerequest ones, then query ones
  prerequest_calls,  \* platform -> number of prerequest() invocations (a call count)
  run,               \* "running"; "failing": a coroutine raised and the exception is
                     \* on its way to the awaiting caller; "aborted": it got there
  call,              \* <<the call of a builder under way>>: its name and arguments
  returned,          \* <<what that call returned>>
  earlier            \* <<what the execute_queries call before this one left in the
                     \* token caches of its checkers>>, <<>> in a process's first run

vars == <<queries, platforms, cache_tokens, checkers, tasks, prerequest_calls, run,
          call, returned, earlier>>

\* the query strings runs are made of
QueryList ==
  << <<"b","o","b">>,
     <<"a","@","b",".","c">>,
     <<"*">>,
     SAMPLE_UNUSED_USERNAME,
     <<>> >>

\* what the prerequest() awaited by coroutine t can return: None when its reply
\* holds no token, else the token of that reply (a session token: each reply
\* carries its own)
prerequest_values(t) == {None, Some(<<"token", t>>)}

\* the strictly increasing index sequences of length n into 1..m
Increasing(m, n) ==
  {s \in [1..n -> 1..m] : \A i \in 1..(n - 1) : s[i] < s[i + 1]}

Selections(list, n) ==
  {[i \in 1..n |-> list[s[i]]] : s \in Increasing(Len(list), n)}

\* PlatformChecker.__init__, proxy_list=[]; sent lists, for each request the
\* checker has made, the proxy it was given to session.request
NewChecker ==
  [request_count |-> 0, prerequest_sent |-> FALSE, token |-> None,
   proxy_list |-> <<>>, sent |-> <<>>]
\* PlatformChecker.__init__ with a proxy list
NewCheckerWith(proxy_list) == [NewChecker EXCEPT !.proxy_list = proxy_list]

NewTask(kind, q, p) ==
  [kind |-> kind, q |-> q, p |-> p, pc |-> "pending",
   invoked |-> "",       \* the capability query() awaited, "" for none
   fetched |-> FALSE,    \* its get_token() called prerequest()
   got |-> <<>>,         \* <<what its get_token() ended with>>
   reply |-> <<>>,       \* <<what its probe's request ended with>>
   cap |-> <<>>,         \* <<what the awaited capability ended with>>
   result |-> <<>>]      \* <<what the coroutine ended with>>

\* main: [init_prerequest(platform, checkers) for platform in platforms] when
\* priming, then [query(q, p, checkers) for q in queries for p in platforms]
PrimeTasks(ps) == [i \in 1..Len(ps) |-> NewTask("init_prerequest", 0, i)]
\* QueryTasks with the two loops exchanged: for p in platforms for q in queries
QueryTasks_platform_major(qs, ps) ==
  [i \in 1..(Len(qs) * Len(ps)) |->
     NewTask("query", ((i - 1) % Len(qs)) + 1, ((i - 1) \div Len(qs)) + 1)]

QueryTasks(qs, ps) ==
  [i \in 1..(Len(qs) * Len(ps)) |->
     NewTask("query", ((i - 1) \div Len(ps)) + 1, ((i - 1) % Len(ps)) + 1)]

\* the state main() / execute_queries() fan out from, for given arguments
InitRun(qs, ps, flag) ==
  /\ queries = qs
  /\ platforms = ps
  /\ cache_tokens = flag
  /\ checkers = [p \in Platforms |-> NewChecker]
  /\ tasks = (IF cache_tokens THEN PrimeTasks(platforms) ELSE <<>>)
                \o QueryTasks(queries, platforms)
  /\ prerequest_calls = [p \in Platforms |-> 0]
  /\ run = "running"
  /\ call = <<>>
  /\ returned = <<>>
  /\ earlier = <<>>

\* runs of up to MaxQueries distinct queries against one selected platform
\* (socialscan -p PLATFORM [-c] query ...)
Init ==
  \E nq \in 1..MaxQueries :
     \E qs \in Selections(QueryList, nq), ps \in Selections(PlatformList, 1),
        flag \in BOOLEAN : InitRun(qs, ps, flag)

TaskIds == 1..Len(tasks)
PlatformOf(t) == platforms[tasks[t].p]
QueryOf(t) == queries[tasks[t].q]

\* asyncio.gather / as_completed schedule every coroutine of a batch before the
\* caller suspends, and the loop runs all of them up to their first network wait
\* before it polls the network; main awaits the priming gather before it builds
\* the query coroutines
BatchOf(t) == tasks[t].kind
\* Startable when main does not await the priming pass
Startable_unprimed(t) ==
  /\ run # "aborted"
  /\ tasks[t].pc = "pending"

Startable(t) ==
  /\ run # "aborted"
  /\ tasks[t].pc = "pending"
  /\ tasks[t].kind = "query" =>
        \A u \in TaskIds :
           tasks[u].kind = "init_prerequest" =>
              tasks[u].pc = "done" /\ tasks[u].result[1].kind = "return"
AllStarted(t) ==
  \A u \in TaskIds : BatchOf(u) = BatchOf(t) => tasks[u].pc # "pending"

\* PlatformChecker._request that picks the proxy after it moved the counter
request_counts_first(c) ==
  LET proxy == IF c.proxy_list # <<>>
               THEN Some(c.proxy_list[((c.request_count + 1) % Len(c.proxy_list)) + 1])
               ELSE None IN
  [c EXCEPT !.request_count = @ + 1, !.sent = Append(@, proxy)]

\* PlatformChecker._request: the proxy is proxy_list[request_count % len] (None
\* without a list), then the counter moves, once per request; no await between
request(c) ==
  LET proxy == IF c.proxy_list # <<>>
               THEN Some(c.proxy_list[(c.request_count % Len(c.proxy_list)) + 1])
               ELSE None IN
  [c EXCEPT !.request_count = @ + 1, !.sent = Append(@, proxy)]

\* a coroutine ends: its result is recorded; an exception is handed to the
\* awaiting caller (gather without return_exceptions, `await future`) through
\* the loop's callback queue, in which steps of other coroutines may be ahead
Ended(task, outcome) == [task EXCEPT !.pc = "done", !.result = <<outcome>>]
RunAfter(outcome) == IF outcome.kind = "raise" THEN "failing" ELSE run

\* what the coroutine ends with when its get_token() or capability ended with outcome
TaskResult(t, outcome) ==
  IF tasks[t].kind = "query" THEN query_result(PlatformOf(t), QueryOf(t), outcome)
  ELSE outcome

TokenError == Raise("QueryError", TOKEN_ERROR_MESSAGE)

\* get_token_cached without the test for None
get_token_cached_unchecked(c) ==
  Return(c.token.val)

\* get_token() with prerequest_sent set: the cached token, or the token error
get_token_cached(c) ==
  IF c.token = None THEN TokenError ELSE Return(c.token.val)

\* get_token_store that leaves prerequest_sent as it was
get_token_store_unsent(c, value) == [c EXCEPT !.token = value]

\* get_token() after `await self.prerequest()` returned value
get_token_store(c, value) == [c EXCEPT !.token = value, !.prerequest_sent = TRUE]

(* ------------------------------- actions ------------------------------- *)
\* the capability a coroutine awaits: init_prerequest awaits get_token() alone
Routing(t) ==
  IF tasks[t].kind = "query" THEN query_routing(QueryOf(t), PlatformOf(t)) ELSE ""

\* the coroutine calls get_token(): init_prerequest on a platform that has
\* prerequest, and every capability of such a platform (its first statement)
CallsGetToken(t) ==
  /\ HasPrerequest(PlatformOf(t))
  /\ tasks[t].kind = "query" => Routing(t) # ""

\* GitLab.check_username returns before any request
LocallyInvalid(t) ==
  /\ PlatformOf(t) = "GITLAB"
  /\ Routing(t) = "check_username"
  /\ ~GitLab_username_matches(QueryOf(t))

\* query(): neither branch applies, the coroutine returns None
StartUnsupported(t) ==
  /\ Startable(t)
  /\ tasks[t].kind = "query"
  /\ Routing(t) = ""
  /\ tasks' = [tasks EXCEPT ![t] = Ended(@, ReturnNone)]
  /\ UNCHANGED <<earlier, call, returned, queries, platforms, cache_tokens, checkers, prerequest_calls, run>>

\* init_prerequest(): the platform has no prerequest, nothing is awaited
StartPrimeNoPrerequest(t) ==
  /\ Startable(t)
  /\ tasks[t].kind = "init_prerequest"
  /\ ~HasPrerequest(PlatformOf(t))
  /\ tasks' = [tasks EXCEPT ![t] = Ended(@, ReturnNone)]
  /\ UNCHANGED <<earlier, call, returned, queries, platforms, cache_tokens, checkers, prerequest_calls, run>>

\* StartLocalInvalid with the request sent before the pattern is tried
StartLocalInvalid_after_request(t) ==
  /\ Startable(t)
  /\ LocallyInvalid(t)
  /\ LET ended == GitLab_local_invalid(QueryOf(t))
         outcome == TaskResult(t, ended) IN
       /\ tasks' = [tasks EXCEPT
             ![t] = Ended([@ EXCEPT !.invoked = Routing(t), !.cap = <<ended>>], outcome)]
       /\ run' = RunAfter(outcome)
  /\ checkers' = [checkers EXCEPT ![PlatformOf(t)] = request(@)]
  /\ UNCHANGED <<earlier, call, returned, queries, platforms, cache_tokens, prerequest_calls>>

\* query() -> GitLab.check_username(): rejected by the local pattern
StartLocalInvalid(t) ==
  /\ Startable(t)
  /\ LocallyInvalid(t)
  /\ LET ended == GitLab_local_invalid(QueryOf(t))
         outcome == TaskResult(t, ended) IN
       /\ tasks' = [tasks EXCEPT
             ![t] = Ended([@ EXCEPT !.invoked = Routing(t), !.cap = <<ended>>], outcome)]
       /\ run' = RunAfter(outcome)
  /\ UNCHANGED <<earlier, call, returned, queries, platforms, cache_tokens, checkers, prerequest_calls>>

\* query() -> a capability without get_token(): the probe is sent
StartProbe(t) ==
  /\ Startable(t)
  /\ tasks[t].kind = "query"
  /\ Routing(t) # ""
  /\ ~CallsGetToken(t)
  /\ ~LocallyInvalid(t)
  /\ tasks' = [tasks EXCEPT ![t].pc = "probe", ![t].invoked = Routing(t)]
  /\ checkers' = [checkers EXCEPT ![PlatformOf(t)] = request(@)]
  /\ UNCHANGED <<earlier, call, returned, queries, platforms, cache_tokens, prerequest_calls, run>>

\* StartFetchToken that sets prerequest_sent before it awaits prerequest()
StartFetchToken_marks_sent(t) ==
  /\ Startable(t)
  /\ CallsGetToken(t)
  /\ ~checkers[PlatformOf(t)].prerequest_sent
  /\ tasks' = [tasks EXCEPT
        ![t].pc = "prerequest", ![t].invoked = Routing(t), ![t].fetched = TRUE]
  /\ checkers' = [checkers EXCEPT
        ![PlatformOf(t)] = [request(@) EXCEPT !.prerequest_sent = TRUE]]
  /\ prerequest_calls' = [prerequest_calls EXCEPT ![PlatformOf(t)] = @ + 1]
  /\ UNCHANGED <<earlier, call, returned, queries, platforms, cache_tokens, run>>

\* get_token(), prerequest_sent false: prerequest() sends its request
StartFetchToken(t) ==
  /\ Startable(t)
  /\ CallsGetToken(t)
  /\ ~checkers[PlatformOf(t)].prerequest_sent
  /\ tasks' = [tasks EXCEPT
        ![t].pc = "prerequest", ![t].invoked = Routing(t), ![t].fetched = TRUE]
  /\ checkers' = [checkers EXCEPT ![PlatformOf(t)] = request(@)]
  /\ prerequest_calls' = [prerequest_calls EXCEPT ![PlatformOf(t)] = @ + 1]
  /\ UNCHANGED <<earlier, call, returned, queries, platforms, cache_tokens, run>>

\* what follows get_token() in the coroutine, given what get_token() ended with:
\* a raise ends it; init_prerequest returns; a capability sends its probe
AfterGetToken(t, c, got) ==
  IF got.kind = "raise"
  THEN LET outcome == TaskResult(t, got) IN
       /\ tasks' = [tasks EXCEPT
             ![t] = Ended([@ EXCEPT !.invoked = Routing(t), !.got = <<got>>,
                                    !.cap = IF tasks[t].kind = "query" THEN <<got>> ELSE <<>>],
                          outcome)]
       /\ checkers' = [checkers EXCEPT ![PlatformOf(t)] = c]
       /\ run' = RunAfter(outcome)
  ELSE IF tasks[t].kind = "init_prerequest"
  THEN /\ tasks' = [tasks EXCEPT ![t] = Ended([@ EXCEPT !.got = <<got>>], ReturnNone)]
       /\ checkers' = [checkers EXCEPT ![PlatformOf(t)] = c]
       /\ run' = run
  ELSE /\ tasks' = [tasks EXCEPT
             ![t].pc = "probe", ![t].invoked = Routing(t), ![t].got = <<got>>]
       /\ checkers' = [checkers EXCEPT ![PlatformOf(t)] = request(c)]
       /\ run' = run

\* StartCachedToken with the prerequest_sent test ignored: it fetches again
StartCachedToken_refetch(t) ==
  /\ Startable(t)
  /\ CallsGetToken(t)
  /\ checkers[PlatformOf(t)].prerequest_sent
  /\ tasks' = [tasks EXCEPT
        ![t].pc = "prerequest", ![t].invoked = Routing(t), ![t].fetched = TRUE]
  /\ checkers' = [checkers EXCEPT ![PlatformOf(t)] = request(@)]
  /\ prerequest_calls' = [prerequest_calls EXCEPT ![PlatformOf(t)] = @ + 1]
  /\ UNCHANGED <<earlier, call, returned, queries, platforms, cache_tokens, run>>

\* get_token(), prerequest_sent true: no request, the cached outcome
StartCachedToken(t) ==
  /\ Startable(t)
  /\ CallsGetToken(t)
  /\ checkers[PlatformOf(t)].prerequest_sent
  /\ AfterGetToken(t, checkers[PlatformOf(t)], get_token_cached(checkers[PlatformOf(t)]))
  /\ UNCHANGED <<earlier, call, returned, queries, platforms, cache_tokens, prerequest_calls>>

\* prerequest() returns value (None: no token in the reply): get_token() stores
\* it, sets prerequest_sent, and raises or returns
PrerequestReturns(t, value) ==
  /\ run # "aborted"
  /\ tasks[t].pc = "prerequest"
  /\ AllStarted(t)
  /\ LET c == get_token_store(checkers[PlatformOf(t)], value) IN
       AfterGetToken(t, c, get_token_cached(c))
  /\ UNCHANGED <<earlier, call, returned, queries, platforms, cache_tokens, prerequest_calls>>

\* PrerequestFails with the failure recorded: prerequest_sent is set
PrerequestFails_recorded(t) ==
  /\ run # "aborted"
  /\ tasks[t].pc = "prerequest"
  /\ AllStarted(t)
  /\ AfterGetToken(t, [checkers[PlatformOf(t)] EXCEPT !.prerequest_sent = TRUE], ClientError)
  /\ UNCHANGED <<earlier, call, returned, queries, platforms, cache_tokens, prerequest_calls>>

\* prerequest()'s request fails: the ClientError leaves get_token() at the await
PrerequestFails(t) ==
  /\ run # "aborted"
  /\ tasks[t].pc = "prerequest"
  /\ AllStarted(t)
  /\ AfterGetToken(t, checkers[PlatformOf(t)], ClientError)
  /\ UNCHANGED <<earlier, call, returned, queries, platforms, cache_tokens, prerequest_calls>>

\* ProbeReply that sends the probe again when the transport failed
ProbeReply_retry(t, r) ==
  /\ run # "aborted"
  /\ tasks[t].pc = "probe"
  /\ AllStarted(t)
  /\ IF r.net = "error" /\ checkers[PlatformOf(t)].request_count <= 2 * MaxQueries
     THEN /\ checkers' = [checkers EXCEPT ![PlatformOf(t)] = request(@)]
          /\ UNCHANGED <<tasks, run>>
     ELSE LET ended == Capability_result(PlatformOf(t), tasks[t].invoked, QueryOf(t), r)
              outcome == TaskResult(t, ended) IN
          /\ tasks' = [tasks EXCEPT ![t] = Ended([@ EXCEPT !.reply = <<r>>, !.cap = <<ended>>], outcome)]
          /\ run' = RunAfter(outcome)
          /\ UNCHANGED checkers
  /\ UNCHANGED <<earlier, call, returned, queries, platforms, cache_tokens, prerequest_calls>>

\* the probe's reply arrives: the capability ends, then query() ends
ProbeReply(t, r) ==
  /\ run # "aborted"
  /\ tasks[t].pc = "probe"
  /\ AllStarted(t)
  /\ LET ended == Capability_result(PlatformOf(t), tasks[t].invoked, QueryOf(t), r)
         outcome == TaskResult(t, ended) IN
       /\ tasks' = [tasks EXCEPT ![t] = Ended([@ EXCEPT !.reply = <<r>>, !.cap = <<ended>>], outcome)]
       /\ run' = RunAfter(outcome)
  /\ UNCHANGED <<earlier, call, returned, queries, platforms, cache_tokens, checkers, prerequest_calls>>

\* the exception reaches main() / execute_queries(): it propagates out of the
\* run, and asyncio.run cancels the coroutines that have not ended
Abort ==
  /\ run = "failing"
  /\ run' = "aborted"
  /\ UNCHANGED <<earlier, call, returned, queries, platforms, cache_tokens, checkers, tasks, prerequest_calls>>

Next ==
  \/ Abort
  \/ \E t \in TaskIds : StartUnsupported(t)
  \/ \E t \in TaskIds : StartPrimeNoPrerequest(t)
  \/ \E t \in TaskIds : StartLocalInvalid(t)
  \/ \E t \in TaskIds : StartProbe(t)
  \/ \E t \in TaskIds : StartFetchToken(t)
  \/ \E t \in TaskIds : StartCachedToken(t)
  \/ \E t \in TaskIds : \E value \in prerequest_values(t) : PrerequestReturns(t, value)
  \/ \E t \in TaskIds : PrerequestFails(t)
  \/ \E t \in TaskIds :
        \E i \in 1..Len(ProbeReplies(PlatformOf(t), tasks[t].invoked)) :
           ProbeReply(t, ProbeReplies(PlatformOf(t), tasks[t].invoked)[i])

Spec == Init /\ [][Next]_vars

(* ------------------------------ cli.main ------------------------------- *)
\* str.upper() on the platform names a run is given
str_upper(name) ==
  CASE name = "github" -> "GITHUB"
    [] name = "GitLab" -> "GITLAB"
    [] name = "gitlab" -> "GITLAB"
    [] name = "myspace" -> "MYSPACE"
    [] OTHER -> name

\* list(dict.fromkeys(queries)): the first occurrences, in order
RECURSIVE Dedupe(_)
Dedupe(s) ==
  IF s = <<>> THEN <<>>
  ELSE LET front == Dedupe(SubSeq(s, 1, Len(s) - 1))
           last == s[Len(s)] IN
       IF \E i \in 1..Len(front) : front[i] = last THEN front ELSE Append(front, last)

\* `if not args.queries`, and `p.upper() in Platforms.__members__` for each name
NoQueries == queries = <<>>
InvalidPlatform == \E i \in 1..Len(platforms) : str_upper(platforms[i]) \notin Platforms

\* the command lines: -p with two names, up to MaxQueries query arguments, -c or not
QueryArgs == { <<"b","o","b">>, <<"a","@","b",".","c">>, <<"*">> }
PlatformArgs == { <<"github", "GitLab">>, <<"gitlab", "myspace">> }

InitMain ==
  \E n \in 0..MaxQueries :
     \E qs \in [1..n -> QueryArgs], ps \in PlatformArgs, flag \in BOOLEAN :
        /\ queries = qs
        /\ platforms = ps
        /\ cache_tokens = flag
        /\ checkers = [p \in Platforms |-> NewChecker]
        /\ tasks = <<>>
        /\ prerequest_calls = [p \in Platforms |-> 0]
        /\ run = "parsing"
        /\ call = <<>>
        /\ returned = <<>>
        /\ earlier = <<>>

\* main raises ValueError before the session is opened
ConfigError ==
  /\ run = "parsing"
  /\ NoQueries \/ InvalidPlatform
  /\ run' = "aborted"
  /\ UNCHANGED <<earlier, call, returned, queries, platforms, cache_tokens, checkers, tasks,
                 prerequest_calls>>

\* FanOut that builds the coroutines for every platform, whatever was selected
FanOut_every_platform ==
  /\ run = "parsing"
  /\ ~NoQueries
  /\ ~InvalidPlatform
  /\ queries' = Dedupe(queries)
  /\ platforms' = PlatformList
  /\ tasks' = (IF cache_tokens THEN PrimeTasks(PlatformList) ELSE <<>>)
                 \o QueryTasks(queries', PlatformList)
  /\ run' = "running"
  /\ UNCHANGED <<earlier, call, returned, cache_tokens, checkers, prerequest_calls>>

\* main opens the session, creates the checkers and the coroutines
FanOut ==
  /\ run = "parsing"
  /\ ~NoQueries
  /\ ~InvalidPlatform
  /\ queries' = Dedupe(queries)
  /\ platforms' = [i \in 1..Len(platforms) |-> str_upper(platforms[i])]
  /\ tasks' = (IF cache_tokens THEN PrimeTasks(platforms) ELSE <<>>)
                 \o QueryTasks(queries', platforms)
  /\ run' = "running"
  /\ UNCHANGED <<earlier, call, returned, cache_tokens, checkers, prerequest_calls>>

NextMain ==
  \/ ConfigError
  \/ FanOut
  \/ Abort
  \/ \E t \in TaskIds : StartUnsupported(t)
  \/ \E t \in TaskIds : StartPrimeNoPrerequest(t)
  \/ \E t \in TaskIds : StartLocalInvalid(t)
  \/ \E t \in TaskIds : StartProbe(t)
  \/ \E t \in TaskIds : StartFetchToken(t)
  \/ \E t \in TaskIds : StartCachedToken(t)
  \/ \E t \in TaskIds : \E value \in prerequest_values(t) : PrerequestReturns(t, value)
  \/ \E t \in TaskIds : PrerequestFails(t)
  \/ \E t \in TaskIds :
        \E i \in 1..Len(ProbeReplies(PlatformOf(t), tasks[t].invoked)) :
           ProbeReply(t, ProbeReplies(PlatformOf(t), tasks[t].invoked)[i])

SpecMain == InitMain /\ [][NextMain]_vars

\* every request ends and every runnable coroutine is run: the event loop
\* leaves no enabled step of the run untaken forever
SpecMainFair == SpecMain /\ WF_vars(NextMain)

(* ---------------- a call of response_unavailable_or_invalid ------------- *)
\* the strings of up to n characters over two letters that differ in case only
Strings(n) == UNION {[1..k -> {"a", "A"}] : k \in 0..n}
Lists(S, n) == UNION {[1..k -> S] : k \in 0..n}

\* checker.response_unavailable_or_invalid(query, message=..., unavailable_messages=...)
\* on a checker, outside any run
InitClassify ==
  /\ \E message \in Strings(MaxLen),
        unavailable_messages \in Lists(Strings(MaxLen - 1), MaxTaken) :
        call = <<[self |-> "SNAPCHAT", query |-> <<"b","o","b">>, message |-> message,
                  unavailable_messages |-> unavailable_messages, link |-> None]>>
  /\ returned = <<>>
  /\ earlier = <<>>
  /\ queries = <<>>
  /\ platforms = <<>>
  /\ cache_tokens = FALSE
  /\ checkers = [p \in Platforms |-> NewChecker]
  /\ tasks = <<>>
  /\ prerequest_calls = [p \in Platforms |-> 0]
  /\ run = "running"

\* the call returns
Classify ==
  /\ call # <<>>
  /\ returned = <<>>
  /\ returned' = <<response_unavailable_or_invalid(call[1].self, call[1].query,
                      call[1].message, call[1].unavailable_messages, call[1].link)>>
  /\ UNCHANGED <<earlier, call, queries, platforms, cache_tokens, checkers, tasks,
                 prerequest_calls, run>>

NextClassify == Classify

SpecClassify == InitClassify /\ [][NextClassify]_vars

(* ------------------------- util.execute_queries ------------------------ *)
\* the sequences of n distinct elements of S
Arrangements(S, n) == {s \in [1..n -> S] : \A i, j \in 1..n : s[i] = s[j] => i = j}

\* the calls: up to MaxQueries distinct queries, in any order, against two
\* platforms without a token in either order, or against one that has a token
LibraryPlatforms == { <<"GITLAB", "REDDIT">>, <<"REDDIT", "GITLAB">>, <<"GITHUB">> }
\* the proxy lists: none, or up to MaxProxies distinct addresses
ProxyLists == {[i \in 1..n |-> <<"proxy", i>>] : n \in 0..MaxProxies}

InitExecuteQueries ==
  \E n \in 1..MaxQueries :
     \E qs \in Arrangements(QueryArgs, n), ps \in LibraryPlatforms,
        proxy_list \in ProxyLists :
        /\ queries = qs
        /\ platforms = ps
        /\ cache_tokens = FALSE
        /\ checkers = [p \in Platforms |-> NewCheckerWith(proxy_list)]
        /\ tasks = QueryTasks(queries, platforms)
        /\ prerequest_calls = [p \in Platforms |-> 0]
        /\ run = "running"
        /\ call = <<>>
        /\ returned = <<>>
        /\ earlier = <<>>

\* [x for x in results if x is not None], results in the order of the coroutines
RECURSIVE NotNone(_)
NotNone(results) ==
  IF results = <<>> THEN <<>>
  ELSE IF Head(results).val = <<>> THEN NotNone(Tail(results))
  ELSE <<Head(results).val[1]>> \o NotNone(Tail(results))

\* gather has every result: execute_queries returns the list
GatherReturns ==
  /\ run = "running"
  /\ returned = <<>>
  /\ tasks # <<>>
  /\ \A t \in TaskIds : tasks[t].pc = "done"
  /\ returned' = <<NotNone([t \in TaskIds |-> tasks[t].result[1]])>>
  /\ UNCHANGED <<earlier, call, queries, platforms, cache_tokens, checkers, tasks,
                 prerequest_calls, run>>

NextExecuteQueries ==
  \/ GatherReturns
  \/ Abort
  \/ \E t \in TaskIds : StartUnsupported(t)
  \/ \E t \in TaskIds : StartLocalInvalid(t)
  \/ \E t \in TaskIds : StartProbe(t)
  \/ \E t \in TaskIds : StartFetchToken(t)
  \/ \E t \in TaskIds : \E value \in prerequest_values(t) : PrerequestReturns(t, value)
  \/ \E t \in TaskIds : PrerequestFails(t)
  \/ \E t \in TaskIds :
        \E i \in 1..Len(ProbeReplies(PlatformOf(t), tasks[t].invoked)) :
           ProbeReply(t, ProbeReplies(PlatformOf(t), tasks[t].invoked)[i])

SpecExecuteQueries == InitExecuteQueries /\ [][NextExecuteQueries]_vars

(* ------------------ execute_queries, called again and again ------------ *)
\* init_checkers: platform.value(session, proxy_list=proxy_list) for every platform
init_checkers(proxy_list) == [p \in Platforms |-> NewCheckerWith(proxy_list)]

\* the token-cache fields of the checkers of the call that has ended
Left ==
  [p \in Platforms |-> [prerequest_sent |-> checkers[p].prerequest_sent,
                        token |-> checkers[p].token]]

\* execute_queries_checkers with the checkers of the call before kept
execute_queries_checkers_kept(proxy_list) ==
  [p \in Platforms |-> [checkers[p] EXCEPT !.proxy_list = proxy_list]]

\* execute_queries: every call opens a session and calls init_checkers
execute_queries_checkers(proxy_list) == init_checkers(proxy_list)

InitExecuteQueriesAgain ==
  \E n \in 1..MaxQueries :
     \E qs \in Arrangements(QueryArgs, n), ps \in LibraryPlatforms :
        /\ queries = qs
        /\ platforms = ps
        /\ cache_tokens = FALSE
        /\ checkers = init_checkers(<<>>)
        /\ tasks = QueryTasks(queries, platforms)
        /\ prerequest_calls = [p \in Platforms |-> 0]
        /\ run = "running"
        /\ call = <<>>
        /\ returned = <<>>
        /\ earlier = <<>>

\* the call has returned its list, or raised, and the program calls
\* execute_queries once more, with the default proxy_list
ExecuteQueriesAgain ==
  /\ run = "aborted" \/ (run = "running" /\ returned # <<>>)
  /\ \E n \in 1..MaxQueries :
        \E qs \in Arrangements(QueryArgs, n), ps \in LibraryPlatforms :
           /\ queries' = qs
           /\ platforms' = ps
           /\ tasks' = QueryTasks(qs, ps)
  /\ checkers' = execute_queries_checkers(<<>>)
  /\ prerequest_calls' = [p \in Platforms |-> 0]
  /\ run' = "running"
  /\ returned' = <<>>
  /\ earlier' = <<Left>>
  /\ UNCHANGED <<call, cache_tokens>>

NextExecuteQueriesAgain ==
  \/ ExecuteQueriesAgain
  \/ GatherReturns
  \/ Abort
  \/ \E t \in TaskIds : StartUnsupported(t)
  \/ \E t \in TaskIds : StartLocalInvalid(t)
  \/ \E t \in TaskIds : StartProbe(t)
  \/ \E t \in TaskIds : StartFetchToken(t)
  \/ \E t \in TaskIds : \E value \in prerequest_values(t) : PrerequestReturns(t, value)
  \/ \E t \in TaskIds : PrerequestFails(t)
  \/ \E t \in TaskIds :
        \E i \in 1..Len(ProbeReplies(PlatformOf(t), tasks[t].invoked)) :
           ProbeReply(t, ProbeReplies(PlatformOf(t), tasks[t].invoked)[i])

SpecExecuteQueriesAgain == InitExecuteQueriesAgain /\ [][NextExecuteQueriesAgain]_vars

(* --------------------------- cli.pretty_print -------------------------- *)
\* the characters of the sort keys, in code point order
CodePoints ==
  <<"A","B","C","D","E","F","G","H","I","J","K","L","M",
    "N","O","P","Q","R","S","T","U","V","W","X","Y","Z",
    "_",
    "a","b","c","d","e","f","g","h","i","j","k","l","m",
    "n","o","p","q","r","s","t","u","v","w","x","y","z">>
ord(ch) == CHOOSE i \in 1..Len(CodePoints) : CodePoints[i] = ch

\* str.lower()
str_lower(s) ==
  [i \in 1..Len(s) |-> IF s[i] \in Upper THEN CodePoints[ord(s[i]) + 27] ELSE s[i]]

\* a < b on str
RECURSIVE str_lt(_, _)
str_lt(a, b) ==
  IF b = <<>> THEN FALSE
  ELSE IF a = <<>> THEN TRUE
  ELSE IF a[1] = b[1] THEN str_lt(Tail(a), Tail(b))
  ELSE ord(a[1]) < ord(b[1])

\* Platforms.__str__: the name of the checker class
Platforms_str(p) ==
  CASE p = "GITHUB" -> <<"G","i","t","H","u","b">>
    [] p = "GITLAB" -> <<"G","i","t","L","a","b">>
    [] p = "REDDIT" -> <<"R","e","d","d","i","t">>
    [] p = "FIREFOX" -> <<"F","i","r","e","f","o","x">>

\* str(getattr(response, view_value))
view_str(response, view_value) ==
  IF view_value = "platform" THEN Platforms_str(response.platform) ELSE response.query

\* a < b on the tuples attrgetter("available", "valid", "success") returns
attrgetter_lt(a, b) ==
  \/ ~a.available /\ b.available
  \/ a.available = b.available /\ ~a.valid /\ b.valid
  \/ a.available = b.available /\ a.valid = b.valid /\ ~a.success /\ b.success

\* key(a) < key(b) for the keys of the two sort calls
key_lt(key, view_value, a, b) ==
  IF key = "attrgetter" THEN attrgetter_lt(a, b)
  ELSE str_lt(str_lower(view_str(a, view_value)), str_lower(view_str(b, view_value)))

\* list.sort(key=...) is stable: an element goes behind the ones that are not
\* greater and came before it
RECURSIVE insort(_, _, _, _)
insort(s, x, key, view_value) ==
  IF s = <<>> THEN <<x>>
  ELSE IF key_lt(key, view_value, x, Head(s)) THEN <<x>> \o s
  ELSE <<Head(s)>> \o insort(Tail(s), x, key, view_value)

RECURSIVE list_sort(_, _, _)
list_sort(s, key, view_value) ==
  IF s = <<>> THEN <<>>
  ELSE insort(list_sort(SubStr(s, 1, Len(s) - 1), key, view_value), s[Len(s)],
              key, view_value)

Reverse(s) == [i \in 1..Len(s) |-> s[Len(s) + 1 - i]]

\* list_sort_reverse as a sort followed by a reversal: equal keys change places
list_sort_then_reverse(s, key, view_value) == Reverse(list_sort(s, key, view_value))

\* list.sort(key=..., reverse=True): descending, and still stable
list_sort_reverse(s, key, view_value) ==
  Reverse(list_sort(Reverse(s), key, view_value))

\* the two sort calls of pretty_print
pretty_print_sort(responses, view_value) ==
  list_sort_reverse(list_sort(responses, "view", view_value), "attrgetter", view_value)

\* the lines of a group after its header: value, and "stderr" for a failure
RECURSIVE pretty_print_lines(_, _, _)
pretty_print_lines(responses, view_value, available_only) ==
  IF responses = <<>> THEN <<>>
  ELSE LET response == Head(responses)
           rest == pretty_print_lines(Tail(responses), view_value, available_only)
       IN IF available_only /\ ~response.available THEN rest
          ELSE << [value |-> view_str(response, view_value),
                   file |-> IF response.success THEN "stdout" ELSE "stderr"] >> \o rest

\* pretty_print on one group: the list as it leaves it sorted, and what it prints
pretty_print(responses, view_value, available_only) ==
  IF available_only /\ \A i \in 1..Len(responses) : ~responses[i].available
  THEN [responses |-> responses, printed |-> <<>>]
  ELSE LET sorted == pretty_print_sort(responses, view_value)
       IN [responses |-> sorted,
           printed |-> pretty_print_lines(sorted, view_value, available_only)]

\* the groups: by query (the platforms of one query, view_value = "platform")
\* or by platform (the queries of one platform, view_value = "query"), the
\* Responses in the order their coroutines completed
ViewPlatforms == {"GITHUB", "GITLAB", "REDDIT", "FIREFOX"}
ViewQueries == { <<"B">>, <<"b">>, <<"a">>, <<"_">>, <<"a","b">> }
ResponseClasses == {"available", "unavailable", "invalid", "failed"}
ResponseOfClass(c, p, q) ==
  (CASE c = "available" -> response_available(p, q, MsgAvailable)
     [] c = "unavailable" -> response_unavailable(p, q, MsgUnavailable, None)
     [] c = "invalid" -> response_invalid(p, q, MsgInvalid)
     [] c = "failed" -> response_failure(p, q, MsgFailure)).val[1]

InitPrettyPrint ==
  /\ \E n \in 1..MaxGroup, available_only \in BOOLEAN :
        \E cs \in [1..n -> ResponseClasses] :
           \/ \E ps \in Arrangements(ViewPlatforms, n) :
                 call = <<[responses |->
                             [i \in 1..n |-> ResponseOfClass(cs[i], ps[i], <<"b","o","b">>)],
                           view_value |-> "platform",
                           available_only |-> available_only]>>
           \/ \E qs \in Arrangements(ViewQueries, n) :
                 call = <<[responses |->
                             [i \in 1..n |-> ResponseOfClass(cs[i], "GITHUB", qs[i])],
                           view_value |-> "query",
                           available_only |-> available_only]>>
  /\ returned = <<>>
  /\ earlier = <<>>
  /\ queries = <<>>
  /\ platforms = <<>>
  /\ cache_tokens = FALSE
  /\ checkers = [p \in Platforms |-> NewChecker]
  /\ tasks = <<>>
  /\ prerequest_calls = [p \in Platforms |-> 0]
  /\ run = "running"

\* the group is sorted and printed
PrettyPrint ==
  /\ call # <<>>
  /\ returned = <<>>
  /\ returned' = <<pretty_print(call[1].responses, call[1].view_value,
                                call[1].available_only)>>
  /\ UNCHANGED <<earlier, call, queries, platforms, cache_tokens, checkers, tasks,
                 prerequest_calls, run>>

NextPrettyPrint == PrettyPrint

SpecPrettyPrint == InitPrettyPrint /\ [][NextPrettyPrint]_vars

(* ------------------ init_prerequest, awaited again and again ----------- *)
\* a program awaits init_prerequest(platform, checkers) on one checker of a
\* platform that has prerequest
InitInitPrerequest ==
  \E p \in Platforms : HasPrerequest(p) /\ InitRun(<<>>, <<p>>, TRUE)

\* the call before has returned or raised, the program has caught what it
\* raised, and it awaits init_prerequest on the same checker once more
InitPrerequestAgain ==
  /\ \A t \in TaskIds : tasks[t].pc = "done"
  /\ Len(tasks) < MaxCalls
  /\ tasks' = Append(tasks, NewTask("init_prerequest", 0, 1))
  /\ run' = "running"
  /\ UNCHANGED <<earlier, call, returned, queries, platforms, cache_tokens, checkers,
                 prerequest_calls>>

NextInitPrerequest ==
  \/ InitPrerequestAgain
  \/ \E t \in TaskIds : StartFetchToken(t)
  \/ \E t \in TaskIds : StartCachedToken(t)
  \/ \E t \in TaskIds : \E value \in prerequest_values(t) : PrerequestReturns(t, value)
  \/ \E t \in TaskIds : PrerequestFails(t)

SpecInitPrerequest == InitInitPrerequest /\ [][NextInitPrerequest]_vars

(* ------------------------------ properties ----------------------------- *)
QueryTaskIds == {t \in TaskIds : tasks[t].kind = "query"}
IsDone(t) == tasks[t].pc = "done"
ResultOf(t) == tasks[t].result[1]
\* the coroutine returned a PlatformResponse
ReturnedResponse(t) ==
  IsDone(t) /\ ResultOf(t).kind = "return" /\ ResultOf(t).val # <<>>
ResponseOf(t) == ResultOf(t).val[1]
\* the coroutine has entered get_token()
CalledGetToken(t) == tasks[t].pc # "pending" /\ CallsGetToken(t)
\* its get_token() has ended
GotToken(t) == tasks[t].got # <<>>

\* C1: whatever the number of tasks that call get_token on a checker before
\* the token is resolved, exactly one prerequest() invocation occurs on it.
C1_TokenSingleFlight ==
  \A t \in TaskIds :
     CalledGetToken(t) => prerequest_calls[PlatformOf(t)] = 1

\* C2: all concurrent first-time callers of get_token on one checker observe
\* the same outcome: the same token for all, or the token error for all.
C2_SameOutcome ==
  \A t, u \in TaskIds :
     ( /\ PlatformOf(t) = PlatformOf(u)
       /\ tasks[t].fetched /\ tasks[u].fetched
       /\ GotToken(t) /\ GotToken(u) )
     => tasks[t].got = tasks[u].got

\* C3: once the token is resolved to a value, a get_token call made afterwards
\* returns that cached value and calls no prerequest(): the call count and the
\* stored token stay as they are and no request is sent by it (a query's own
\* probe, which follows it, is the one request of the step).
C3_CachedStep(t) ==
  LET c == checkers[PlatformOf(t)] IN
  ( /\ tasks[t].pc = "pending"
    /\ tasks'[t].pc # "pending"
    /\ CallsGetToken(t)
    /\ c.prerequest_sent
    /\ c.token # None )
  => /\ tasks'[t].got = <<Return(c.token.val)>>
     /\ ~tasks'[t].fetched
     /\ prerequest_calls' = prerequest_calls
     /\ checkers'[PlatformOf(t)].token = c.token
     /\ checkers'[PlatformOf(t)].request_count =
           c.request_count + (IF tasks[t].kind = "query" THEN 1 ELSE 0)

C3_Idempotence == [][\A t \in TaskIds : C3_CachedStep(t)]_vars

\* C3 witness: after a priming fetch resolved the token, a query got it from the cache
C3_Witness ==
  \E t, u \in TaskIds :
     /\ tasks[t].kind = "init_prerequest" /\ tasks[t].fetched /\ GotToken(t)
     /\ tasks[u].kind = "query" /\ ~tasks[u].fetched /\ GotToken(u)
     /\ tasks[u].got = tasks[t].got
     /\ tasks[u].got[1].kind = "return"
     /\ prerequest_calls[PlatformOf(u)] = 1

\* C4: once a prerequest() has resolved the token to None, every get_token
\* call that ends afterwards on that checker fails.
C4_PermanentFailure ==
  [][\A t \in TaskIds :
       ( /\ checkers[PlatformOf(t)].prerequest_sent
         /\ checkers[PlatformOf(t)].token = None
         /\ ~GotToken(t)
         /\ tasks'[t].got # <<>> )
       => tasks'[t].got[1].kind = "raise"]_vars

\* C5: once prerequest_sent is true, the stored token never changes again.
C5_TokenStable ==
  [][\A p \in Platforms :
       checkers[p].prerequest_sent => checkers'[p].token = checkers[p].token]_vars

\* C6: every Response satisfies success=false => available=false and
\* valid=false, and valid=false => available=false, so it is in exactly one of
\* the classes available, unavailable, invalid, failed.
ResponseClass(r) ==
  {c \in {"available", "unavailable", "invalid", "failed"} :
     \/ c = "available" /\ r.available /\ r.valid /\ r.success
     \/ c = "unavailable" /\ ~r.available /\ r.valid /\ r.success
     \/ c = "invalid" /\ ~r.available /\ ~r.valid /\ r.success
     \/ c = "failed" /\ ~r.available /\ ~r.valid /\ ~r.success}

\* the Responses a coroutine has produced: by its capability, by query() itself
ResponsesOf(t) ==
  {o.val[1] : o \in {x \in {tasks[t].cap[i] : i \in 1..Len(tasks[t].cap)}
                              \cup {tasks[t].result[i] : i \in 1..Len(tasks[t].result)} :
                        x.kind = "return" /\ x.val # <<>>}}

C6_ResponseInvariant ==
  \A t \in TaskIds :
     \A r \in ResponsesOf(t) :
        /\ ~r.success => (~r.available /\ ~r.valid)
        /\ ~r.valid => ~r.available
        /\ Cardinality(ResponseClass(r)) = 1

\* C6 witness: a capability has built a Failed Response
C6_Witness ==
  \E t \in TaskIds :
     /\ ReturnedResponse(t)
     /\ ~ResponseOf(t).success
     /\ ResponseClass(ResponseOf(t)) = {"failed"}

\* C7: whatever query(i, P, checkers) returns is None or one Response whose
\* platform is P and whose query is i.
C7_ResponseIdentity ==
  \A t \in QueryTaskIds :
     ReturnedResponse(t) =>
        /\ ResponseOf(t).platform = PlatformOf(t)
        /\ ResponseOf(t).query = QueryOf(t)

\* C8: an email-shaped query invokes check_email when the platform defines it
\* and otherwise ends with None and no capability invoked; a username-shaped
\* query invokes check_username when defined and otherwise ends with None.
C8_DispatchRouting ==
  \A t \in QueryTaskIds :
     tasks[t].pc # "pending" =>
        LET email == EMAIL_REGEX_match(QueryOf(t))
            defined == IF email THEN HasCheckEmail(PlatformOf(t))
                       ELSE HasCheckUsername(PlatformOf(t))
        IN /\ defined => tasks[t].invoked = (IF email THEN "check_email" ELSE "check_username")
           /\ ~defined => /\ tasks[t].invoked = ""
                          /\ tasks[t].cap = <<>>
                          /\ tasks[t].result = <<ReturnNone>>
           /\ email => tasks[t].invoked # "check_username"
           /\ ~email => tasks[t].invoked # "check_email"

\* C8 witness: an email-shaped query reached check_email and a username-shaped
\* one reached check_username on the same platform
C8_Witness ==
  \E t, u \in QueryTaskIds :
     /\ EMAIL_REGEX_match(QueryOf(t)) /\ tasks[t].invoked = "check_email" /\ IsDone(t)
     /\ ~EMAIL_REGEX_match(QueryOf(u)) /\ tasks[u].invoked = "check_username" /\ IsDone(u)

IsFailedResponseFor(o, t) ==
  /\ o.kind = "return"
  /\ o.val # <<>>
  /\ o.val[1].platform = PlatformOf(t)
  /\ o.val[1].query = QueryOf(t)
  /\ ~o.val[1].available /\ ~o.val[1].valid /\ ~o.val[1].success

\* C9: when the invoked capability raises a network error, a key error or the
\* token error, query() returns a Failed Response for the same platform and
\* query, whose message names the error; the call returns normally.
C9_CaughtErrors ==
  \A t \in QueryTaskIds :
     ( /\ IsDone(t)
       /\ tasks[t].cap # <<>>
       /\ tasks[t].cap[1].kind = "raise"
       /\ tasks[t].cap[1].exc \in {"ClientError", "KeyError", "QueryError"} )
     => /\ IsFailedResponseFor(ResultOf(t), t)
        /\ ResponseOf(t).message[1] = tasks[t].cap[1].exc

\* C10: when the invoked capability returns no Response at all, query() returns
\* a Failed Response; nothing is raised out of query().
C10_NoResponse ==
  \A t \in QueryTaskIds :
     ( /\ IsDone(t)
       /\ tasks[t].cap = <<ReturnNone>> )
     => /\ IsFailedResponseFor(ResultOf(t), t)
        /\ ResultOf(t).kind # "raise"

\* C11: no error arising inside a task escapes query(): whatever the capability
\* ends with, the task ends by returning a Response or None, never by raising.
C11_NoEscape ==
  \A t \in QueryTaskIds : IsDone(t) => ResultOf(t).kind # "raise"

\* the run has reported: every coroutine ended and no exception reached main()
RunCompleted ==
  /\ run = "running"
  /\ tasks # <<>>
  /\ \A t \in TaskIds : IsDone(t)
RunEnded == RunCompleted \/ run = "aborted"
\* the query tasks whose Response the run reports (main prints after its loop;
\* execute_queries returns after gather): none when an exception ended the run
Reported == IF RunCompleted THEN {t \in QueryTaskIds : ReturnedResponse(t)} ELSE {}
\* the task's capability raised or returned no Response
Faulted(t) ==
  /\ IsDone(t)
  /\ tasks[t].cap # <<>>
  /\ tasks[t].cap[1].kind = "raise" \/ tasks[t].cap[1] = ReturnNone

\* C12: the failure of a task for one platform never drops or prevents the
\* Response of a task for another platform: when the run has ended, every task
\* of another platform that did not fault itself has its Response reported
\* (the batch has not failed as a whole).
C12_SiblingIsolation ==
  \A t, u \in QueryTaskIds :
     ( /\ RunEnded
       /\ PlatformOf(t) # PlatformOf(u)
       /\ Faulted(t)
       /\ Routing(u) # ""
       /\ ~Faulted(u) )
     => u \in Reported

\* x occurs in message as a run of consecutive characters, compared exactly
IsSubstring(x, message) ==
  \E i \in 1..(Len(message) + 1) :
     \E j \in (i - 1)..Len(message) : SubSeq(message, i, j) = x
\* the list with its entries in the order f
Reordered(list, f) == [i \in 1..Len(list) |-> list[f[i]]]

\* C13: response_unavailable_or_invalid returns an Unavailable Response iff the
\* message contains at least one of the taken-substrings (case-sensitive) and
\* an Invalid Response otherwise, and returns the same for every order of the list.
C13_Classification ==
  returned # <<>> =>
     LET a == call[1]
         taken == \E i \in 1..Len(a.unavailable_messages) :
                     IsSubstring(a.unavailable_messages[i], a.message) IN
     /\ returned[1].kind = "return"
     /\ returned[1].val # <<>>
     /\ taken => ResponseClass(returned[1].val[1]) = {"unavailable"}
     /\ ~taken => ResponseClass(returned[1].val[1]) = {"invalid"}
     /\ \A f \in Permutations(1..Len(a.unavailable_messages)) :
           response_unavailable_or_invalid(a.self, a.query, a.message,
              Reordered(a.unavailable_messages, f), a.link) = returned[1]

\* C13 witness: the message contains the second taken-substring only, and not
\* the first, which differs from it in case; the call returned Unavailable
C13_Witness ==
  /\ returned # <<>>
  /\ Len(call[1].unavailable_messages) = 2
  /\ call[1].unavailable_messages[1] = <<"A">>
  /\ call[1].unavailable_messages[2] = <<"a">>
  /\ call[1].message = <<"a", "a">>
  /\ ResponseClass(returned[1].val[1]) = {"unavailable"}

\* C14: when the run has ended, a batch has yielded exactly one Response for
\* every (query, platform) pair whose shape the platform supports and none for
\* the other pairs, whatever the outcome of each task.
C14_BatchCompleteness ==
  (RunEnded /\ tasks # <<>>) =>
     \A i \in 1..Len(queries), j \in 1..Len(platforms) :
        Cardinality({t \in Reported : tasks[t].q = i /\ tasks[t].p = j})
           = IF query_routing(queries[i], platforms[j]) # "" THEN 1 ELSE 0

\* the task whose Response stands at position m of the returned list
TaskAt(m) ==
  CHOOSE t \in QueryTaskIds : ReturnedResponse(t) /\ ResponseOf(t) = returned[1][m]
\* submission order: query-major, then platform order as passed
Before(t, u) ==
  \/ tasks[t].q < tasks[u].q
  \/ tasks[t].q = tasks[u].q /\ tasks[t].p < tasks[u].p

\* C15: the list execute_queries returns holds the Response of every task that
\* has one, once each, none for a None result, and the Response for (q_a, p_b)
\* precedes that for (q_c, p_d) iff a < c or (a = c and b < d), whatever the
\* order in which the tasks completed.
C15_SubmissionOrder ==
  returned # <<>> =>
     LET out == returned[1] IN
     /\ \A m \in 1..Len(out) :
           \E t \in QueryTaskIds : ReturnedResponse(t) /\ ResponseOf(t) = out[m]
     /\ \A t \in QueryTaskIds :
           Cardinality({m \in 1..Len(out) : ReturnedResponse(t) /\ out[m] = ResponseOf(t)})
              = IF Routing(t) # "" THEN 1 ELSE 0
     /\ \A m, n \in 1..Len(out) : m < n <=> Before(TaskAt(m), TaskAt(n))

\* C15 witness: a call with two username queries and two platforms returned
\* the four Responses, those of the first query first
C15_Witness ==
  /\ returned # <<>>
  /\ Len(queries) = 2 /\ Len(platforms) = 2
  /\ Len(returned[1]) = 4
  /\ returned[1][4] = ResponseOf(4)
  /\ returned[1][1].platform = platforms[1] /\ returned[1][1].query = queries[1]
  /\ returned[1][2].platform = platforms[2] /\ returned[1][2].query = queries[1]

\* every prerequest() of platform p that has returned, returned None
TokenFailed(p) ==
  /\ HasPrerequest(p)
  /\ \E t \in TaskIds : PlatformOf(t) = p /\ tasks[t].got = <<TokenError>>
  /\ \A t \in TaskIds : (PlatformOf(t) = p /\ GotToken(t)) => tasks[t].got = <<TokenError>>

\* C16: when the run has ended and the prerequest() of a platform returned
\* None, every query against that platform has a reported Failed Response whose
\* message is the token error, and every query against another platform that
\* did not fault itself has its own verdict reported.
C16_TokenFailureInBatch ==
  \A j \in 1..Len(platforms) :
     (RunEnded /\ tasks # <<>> /\ TokenFailed(platforms[j])) =>
        \A t \in QueryTaskIds :
           Routing(t) # "" =>
              IF PlatformOf(t) = platforms[j]
              THEN /\ t \in Reported
                   /\ IsFailedResponseFor(ResultOf(t), t)
                   /\ ResponseOf(t).message = <<"QueryError", "-">> \o TOKEN_ERROR_MESSAGE
              ELSE ~Faulted(t) => (t \in Reported /\ tasks[t].cap = <<ResultOf(t)>>)

\* C17: when the run has ended, a task whose HTTP call ended with a transport
\* timeout has a reported Failed Response whose message names the network
\* error, and every other task that did not fault itself has its Response reported.
C17_TimeoutIsolated ==
  \A t \in QueryTaskIds :
     (RunEnded /\ tasks[t].cap = <<ClientError>>) =>
        /\ t \in Reported
        /\ IsFailedResponseFor(ResultOf(t), t)
        /\ ResponseOf(t).message[1] = "ClientError"
        /\ \A u \in QueryTaskIds \ {t} : (Routing(u) # "" /\ ~Faulted(u)) => u \in Reported

\* C18: a run given no query or an unknown platform name raises to the caller
\* while every checker's request count is still zero and no task exists, and a
\* run is ended by an exception under these conditions only.
C18_ConfigErrorsOnly ==
  /\ (NoQueries \/ InvalidPlatform) =>
        /\ run \in {"parsing", "aborted"}
        /\ tasks = <<>>
        /\ \A p \in Platforms : checkers[p].request_count = 0
  /\ run = "aborted" => (NoQueries \/ InvalidPlatform)

\* C19: every run whose configuration is valid eventually completes and reports
\* on every submitted task: each task leaves pending and ends, with or without
\* the priming pass and whatever each token fetch and each probe ends with.
C19_RunCompletes ==
  (run = "parsing" /\ ~NoQueries /\ ~InvalidPlatform) ~> RunCompleted

\* how far a coroutine has got
PcRank(pc) ==
  CASE pc = "pending" -> 0 [] pc = "prerequest" -> 1 [] pc = "probe" -> 2 [] pc = "done" -> 3
\* the tasks of platform p that send a request in this step
Sending(p) ==
  {t \in TaskIds : /\ PlatformOf(t) = p
                   /\ tasks'[t].pc \in {"prerequest", "probe"}
                   /\ tasks'[t].pc # tasks[t].pc}

\* C20: a task never goes back: it invokes at most one capability, once, sends
\* at most one token fetch and then at most one probe, and once either has
\* failed or the capability has ended nothing is sent on its behalf again.
C20_NoRetries ==
  [][ /\ \A t \in TaskIds :
            /\ PcRank(tasks'[t].pc) >= PcRank(tasks[t].pc)
            /\ tasks[t].invoked # "" => tasks'[t].invoked = tasks[t].invoked
            /\ tasks[t].fetched => tasks'[t].fetched
            /\ tasks[t].pc = "done" => tasks'[t] = tasks[t]
      /\ \A p \in Platforms :
            /\ checkers'[p].request_count = checkers[p].request_count + Cardinality(Sending(p))
            /\ prerequest_calls'[p] = prerequest_calls[p]
                  + Cardinality({t \in Sending(p) : tasks'[t].pc = "prerequest"}) ]_vars

\* C20 witness: the one task of a run fetched its token, its probe failed in
\* transport, and the checker has sent these two requests only
C20_Witness ==
  /\ Len(tasks) = 1
  /\ IsDone(1)
  /\ tasks[1].fetched
  /\ tasks[1].got # <<>> /\ tasks[1].got[1].kind = "return"
  /\ tasks[1].cap = <<ClientError>>
  /\ checkers[PlatformOf(1)].request_count = 2
  /\ prerequest_calls[PlatformOf(1)] = 1

PrimeTaskIds == {t \in TaskIds : tasks[t].kind = "init_prerequest"}
\* the coroutine is in get_token() or has left it
EnteredGetToken(t) == tasks[t].pc = "prerequest" \/ tasks[t].got # <<>>
QueriesStarted == \E t \in QueryTaskIds : tasks[t].pc # "pending"

\* C21: with the prime-tokens flag there is one priming call per selected
\* platform; it calls get_token, once, exactly when the platform defines
\* prerequest, no other platform's checker is touched, and every one of these
\* calls has ended before the first query task starts running. Without the
\* flag there is no priming call.
C21_PrimingPass ==
  tasks # <<>> =>
     /\ ~cache_tokens => PrimeTaskIds = {}
     /\ cache_tokens =>
           /\ \A j \in 1..Len(platforms) :
                 Cardinality({t \in PrimeTaskIds : tasks[t].p = j}) = 1
           /\ \A t \in PrimeTaskIds :
                 /\ EnteredGetToken(t) => HasPrerequest(PlatformOf(t))
                 /\ (IsDone(t) /\ HasPrerequest(PlatformOf(t))) => GotToken(t)
           /\ QueriesStarted => \A t \in PrimeTaskIds : IsDone(t)
           /\ ~QueriesStarted =>
                 \A p \in Platforms :
                    /\ prerequest_calls[p] =
                          Cardinality({t \in PrimeTaskIds : PlatformOf(t) = p /\ tasks[t].fetched})
                    /\ prerequest_calls[p] <= 1
                    /\ checkers[p].request_count = prerequest_calls[p]

\* C21 witness: after the priming pass fetched GitHub's token and made no call
\* for GitLab, which has no prerequest, a query task has started
C21_Witness ==
  /\ cache_tokens
  /\ QueriesStarted
  /\ \E t, u \in PrimeTaskIds :
        /\ PlatformOf(t) = "GITHUB" /\ tasks[t].fetched /\ GotToken(t)
        /\ PlatformOf(u) = "GITLAB" /\ IsDone(u) /\ ~EnteredGetToken(u)
  /\ prerequest_calls["GITHUB"] = 1

\* the query tasks against platform p whose shape p supports, and those of
\* them that have started
SupportedOn(p) == {t \in QueryTaskIds : PlatformOf(t) = p /\ Routing(t) # ""}
StartedOn(p) == {t \in SupportedOn(p) : tasks[t].pc # "pending"}

\* C22: after a successful priming pass no query calls prerequest(): a
\* token-requiring platform has had one prerequest() call, and 1 + (the queries
\* started so far) requests, N + 1 once its N supported queries have started;
\* without priming it never has more than 2N requests.
C22_PrimedRequestCount ==
  \A p \in Platforms :
     HasPrerequest(p) =>
        /\ (cache_tokens /\ QueriesStarted) =>
              /\ prerequest_calls[p] = Cardinality({t \in PrimeTaskIds : PlatformOf(t) = p})
              /\ prerequest_calls[p] <= 1
              /\ \A t \in SupportedOn(p) : ~tasks[t].fetched
              /\ checkers[p].request_count = prerequest_calls[p] + Cardinality(StartedOn(p))
              /\ (\A t \in QueryTaskIds : tasks[t].pc # "pending") =>
                    checkers[p].request_count = prerequest_calls[p] + Cardinality(SupportedOn(p))
        /\ ~cache_tokens => checkers[p].request_count <= 2 * Cardinality(SupportedOn(p))

\* C22 witness: a primed run of two supported queries against a
\* token-requiring platform has ended with three requests, one of them a prerequest
C22_Witness ==
  \E p \in Platforms :
     /\ HasPrerequest(p)
     /\ cache_tokens
     /\ Cardinality(SupportedOn(p)) = 2
     /\ \A t \in SupportedOn(p) : IsDone(t)
     /\ checkers[p].request_count = 3
     /\ prerequest_calls[p] = 1

\* C23: without the priming pass the queries started against a
\* token-requiring checker do not use the token cache: every started query has
\* issued its own prerequest(), N prerequest() calls for N queries.
C23_UnprimedFetches ==
  ~cache_tokens =>
     \A p \in Platforms :
        HasPrerequest(p) =>
           /\ \A t \in StartedOn(p) : tasks[t].fetched
           /\ prerequest_calls[p] = Cardinality(StartedOn(p))
           /\ (\A t \in QueryTaskIds : tasks[t].pc # "pending") =>
                 prerequest_calls[p] = Cardinality(SupportedOn(p))

\* C23 witness: an unprimed run of two supported queries against a
\* token-requiring platform in which the first reply already resolved the
\* token, and the second query's own prerequest() was sent all the same
C23_Witness ==
  \E p \in Platforms :
     /\ ~cache_tokens
     /\ HasPrerequest(p)
     /\ Cardinality(SupportedOn(p)) = 2
     /\ checkers[p].prerequest_sent
     /\ \E t \in SupportedOn(p) : tasks[t].pc = "prerequest"
     /\ prerequest_calls[p] = 2

\* the task's get_token() returned a token, after which its probe is sent
Probed(t) == GotToken(t) /\ tasks[t].got[1].kind = "return"

\* C24: a token-gated capability sends its probe only after get_token()
\* returned a token that is not None; a task whose get_token() raised has ended
\* with that error and no probe was sent for it: the checker's requests are
\* its prerequests and the probes of the tasks that got a token.
C24_FailClosed ==
  \A p \in Platforms :
     HasPrerequest(p) =>
        /\ \A t \in SupportedOn(p) :
              /\ tasks[t].pc = "probe" => Probed(t)
              /\ Probed(t) => tasks[t].got[1].val # <<>> /\ tasks[t].got[1].val[1] # None.val
              /\ (GotToken(t) /\ ~Probed(t)) =>
                    /\ IsDone(t)
                    /\ tasks[t].cap[1].kind = "raise"
                    /\ tasks[t].cap[1].exc = tasks[t].got[1].exc
                    /\ tasks[t].cap[1].detail = tasks[t].got[1].detail
        /\ checkers[p].request_count =
              prerequest_calls[p] + Cardinality({t \in SupportedOn(p) : Probed(t)})

\* C24 witness: the only query of a run got the token error from its own
\* prerequest() and ended; the prerequest is the one request that was sent
C24_Witness ==
  /\ Len(tasks) = 1
  /\ IsDone(1)
  /\ tasks[1].got = <<TokenError>>
  /\ checkers[PlatformOf(1)].request_count = 1
  /\ prerequest_calls[PlatformOf(1)] = 1

\* the task's probe was answered by the platform's too-many-requests signal:
\* HTTP status 429 from GitHub, "error": 429 in Reddit's JSON
TooManyRequests(t) ==
  /\ tasks[t].reply # <<>>
  /\ tasks[t].reply[1].net = "ok"
  /\ \/ PlatformOf(t) = "GITHUB" /\ tasks[t].reply[1].status = 429
     \/ /\ PlatformOf(t) = "REDDIT"
        /\ tasks[t].reply[1].json
        /\ Has(tasks[t].reply[1].body, "error")
        /\ tasks[t].reply[1].body.error = 429
\* the requests sent for tasks of platform p: a prerequest per fetch, a probe
\* per task that is awaiting its reply or has had it
RequestsOf(p) ==
  prerequest_calls[p]
    + Cardinality({t \in TaskIds : PlatformOf(t) = p
                                   /\ (tasks[t].pc = "probe" \/ tasks[t].reply # <<>>)})

\* C25: a task whose probe was answered by the too-many-requests signal has
\* returned a Failed Response whose message is the proxy-or-wait advice, and
\* its request was not sent again.
C25_TooManyRequests ==
  \A t \in QueryTaskIds :
     TooManyRequests(t) =>
        /\ IsDone(t)
        /\ IsFailedResponseFor(ResultOf(t), t)
        /\ ResponseOf(t).message = TOO_MANY_REQUEST_ERROR_MESSAGE
        /\ checkers[PlatformOf(t)].request_count = RequestsOf(PlatformOf(t))

\* C25 witness: GitHub answered the probe of a username with status 429
C25_Witness ==
  \E t \in QueryTaskIds :
     /\ TooManyRequests(t)
     /\ PlatformOf(t) = "GITHUB"
     /\ tasks[t].invoked = "check_username"
     /\ ReturnedResponse(t)
     /\ ~ResponseOf(t).success

\* the reply to the task's probe is not what its checker expects: another
\* content type than JSON where get_json is used, a body that Pastebin's
\* pattern does not match
Mismatched(t) ==
  /\ tasks[t].reply # <<>>
  /\ tasks[t].reply[1].net = "ok"
  /\ \/ tasks[t].cap = <<UnexpectedContent>>
     \/ PlatformOf(t) = "PASTEBIN" /\ ~Pastebin_regex_matches(tasks[t].reply[1].text)

\* C26: a task whose probe got a reply of an unexpected content type or
\* structure has returned a Failed Response, and no second request was sent.
C26_UnexpectedContent ==
  \A t \in QueryTaskIds :
     (IsDone(t) /\ Mismatched(t)) =>
        /\ IsFailedResponseFor(ResultOf(t), t)
        /\ checkers[PlatformOf(t)].request_count = RequestsOf(PlatformOf(t))

\* the proxy the k-th request of a checker (k from 1) has to use
ProxyDue(c, k) ==
  IF c.proxy_list = <<>> THEN None
  ELSE Some(c.proxy_list[((k - 1) % Len(c.proxy_list)) + 1])

\* C27: a checker's request_count never decreases and grows by exactly one
\* for every request sent, whichever of its tasks send them and in whatever
\* order; the k-th request (k from 0) was given proxy_list[k mod L], and no
\* proxy when the list is empty.
C27_RequestCounter ==
  /\ [](\A p \in Platforms :
          /\ Len(checkers[p].sent) = checkers[p].request_count
          /\ \A k \in 1..Len(checkers[p].sent) :
                checkers[p].sent[k] = ProxyDue(checkers[p], k))
  /\ [][\A p \in Platforms :
          /\ checkers'[p].request_count >= checkers[p].request_count
          /\ checkers'[p].request_count =
                checkers[p].request_count + Cardinality(Sending(p))]_vars

\* C27 witness: two concurrent queries of one checker with two proxies have
\* sent four requests, prerequests and probes, and the rotation wrapped around
C27_Witness ==
  \E p \in Platforms :
     /\ Len(checkers[p].proxy_list) = 2
     /\ checkers[p].request_count = 4
     /\ prerequest_calls[p] = 2
     /\ checkers[p].sent = << Some(<<"proxy", 1>>), Some(<<"proxy", 2>>),
                              Some(<<"proxy", 1>>), Some(<<"proxy", 2>>) >>

\* C28: the shape of a query is decided by the query string alone: a task that
\* awaited a capability awaited check_email exactly when its query matches
\* EMAIL_REGEX, so two tasks of the same identifier never awaited check_email
\* on one platform and check_username on another.
C28_ShapeByQueryAlone ==
  /\ \A t \in QueryTaskIds :
        tasks[t].invoked # "" =>
           (tasks[t].invoked = "check_email" <=> EMAIL_REGEX_match(QueryOf(t)))
  /\ \A t1, t2 \in QueryTaskIds :
        QueryOf(t1) = QueryOf(t2) =>
           ~(tasks[t1].invoked = "check_email" /\ tasks[t2].invoked = "check_username")

\* C28 witness: an e-mail address went to check_email on a platform that has
\* it while its task on a platform with check_username alone ended with no
\* capability awaited
C28_Witness ==
  \E t1, t2 \in QueryTaskIds :
     /\ QueryOf(t1) = QueryOf(t2)
     /\ PlatformOf(t1) # PlatformOf(t2)
     /\ tasks[t1].invoked = "check_email"
     /\ HasCheckUsername(PlatformOf(t2)) /\ ~HasCheckEmail(PlatformOf(t2))
     /\ tasks[t2].pc = "done" /\ tasks[t2].invoked = ""

\* the tasks of this call against platform p whose prerequest() has returned
FetchedOn(p) ==
  {t \in TaskIds : /\ PlatformOf(t) = p
                   /\ tasks[t].fetched
                   /\ tasks[t].pc # "prerequest"}

\* C29: the tasks of a call against one platform work on one checker, whose
\* counter holds the requests of all of them, and every call starts from new
\* checkers: whatever the call before left, a checker holds request_count = 0,
\* prerequest_sent = FALSE and token = None until a task of this call changes
\* them, its flag is set only by a prerequest() of this call, and its token is
\* one that a prerequest() of this call returned.
C29_FreshCheckers ==
  \A p \in Platforms :
     /\ checkers[p].request_count = RequestsOf(p)
     /\ checkers[p].prerequest_sent => FetchedOn(p) # {}
     /\ checkers[p].token.some =>
           \E t \in FetchedOn(p) : checkers[p].token = Some(<<"token", t>>)
     /\ (\A t \in TaskIds : PlatformOf(t) = p => tasks[t].pc = "pending") =>
           /\ checkers[p].request_count = 0
           /\ ~checkers[p].prerequest_sent
           /\ checkers[p].token = None

\* C29 witness: the call before left a checker with a token, another with a
\* recorded failure to get one is equally possible, and in this call two tasks
\* share that platform's checker: one is fetching the token anew, the other
\* has not started, and the checker still holds no token
C29_Witness ==
  /\ earlier # <<>>
  /\ \E p \in Platforms :
        /\ earlier[1][p].prerequest_sent /\ earlier[1][p].token.some
        /\ ~checkers[p].prerequest_sent /\ checkers[p].token = None
        /\ checkers[p].request_count = 1
        /\ \E t1, t2 \in TaskIds :
              /\ PlatformOf(t1) = p /\ PlatformOf(t2) = p
              /\ tasks[t1].pc = "prerequest" /\ tasks[t2].pc = "pending"

\* 3 for available, 2 for unavailable, 1 for invalid, 0 for failed
ClassRank(r) ==
  CASE "available" \in ResponseClass(r) -> 3
    [] "unavailable" \in ResponseClass(r) -> 2
    [] "invalid" \in ResponseClass(r) -> 1
    [] "failed" \in ResponseClass(r) -> 0

\* the group was printed: some Response of it passed the available_only filter
Printed ==
  /\ returned # <<>>
  /\ ~call[1].available_only \/ \E i \in 1..Len(call[1].responses) :
                                    call[1].responses[i].available

\* C30: a printed group holds the Responses it was given, available ones
\* before unavailable before invalid before failed, and Responses of one class
\* in ascending order of the other key compared in lower case; the lines
\* printed follow that order.
C30_PresentationOrder ==
  Printed =>
    LET given == call[1].responses
        out == returned[1].responses
        lines == returned[1].printed
        other(r) == str_lower(view_str(r, call[1].view_value))
    IN /\ Len(out) = Len(given)
       /\ \A i \in 1..Len(given) : \E j \in 1..Len(out) : out[j] = given[i]
       /\ \A i, j \in 1..Len(out) :
             i < j => /\ ClassRank(out[i]) >= ClassRank(out[j])
                      /\ ClassRank(out[i]) = ClassRank(out[j]) =>
                            ~str_lt(other(out[j]), other(out[i]))
       /\ \A i, j \in 1..Len(lines) :
             i < j => \E k, l \in 1..Len(out) :
                         /\ k < l
                         /\ lines[i].value = view_str(out[k], call[1].view_value)
                         /\ lines[j].value = view_str(out[l], call[1].view_value)

\* C30 witness: a group given as failed "a", available "B", available "_",
\* in that order, left pretty_print as "_", "B", "a": the class first, then
\* the key, "_" before "b"
C30_Witness ==
  /\ returned # <<>>
  /\ call[1].view_value = "query"
  /\ ~call[1].available_only
  /\ Len(call[1].responses) = 3
  /\ call[1].responses[1].query = <<"a">> /\ ~call[1].responses[1].success
  /\ call[1].responses[2].query = <<"B">> /\ call[1].responses[2].available
  /\ call[1].responses[3].query = <<"_">> /\ call[1].responses[3].available
  /\ returned[1].responses[1].query = <<"_">>
  /\ returned[1].responses[2].query = <<"B">>
  /\ returned[1].responses[3].query = <<"a">>

\* the query task is GitLab.check_username on a name its pattern rejects
GitLabRejects(t) ==
  /\ tasks[t].kind = "query"
  /\ PlatformOf(t) = "GITLAB"
  /\ ~EMAIL_REGEX_match(QueryOf(t))
  /\ ~GitLab_username_matches(QueryOf(t))

\* C31: GitLab.check_username on a username its local pattern rejects ends in
\* the step it starts in, with an Invalid Response that query() returns, and
\* that step sends no request: the checker's request_count, its token cache
\* and the number of prerequest() calls are what they were.
C31_GitLabLocalValidation ==
  [][\A t \in TaskIds :
        (GitLabRejects(t) /\ tasks[t].pc = "pending" /\ tasks'[t].pc # "pending") =>
           /\ tasks'[t].pc = "done"
           /\ tasks'[t].reply = <<>>
           /\ tasks'[t].cap # <<>>
           /\ tasks'[t].cap[1].kind = "return"
           /\ tasks'[t].cap[1].val # <<>>
           /\ ResponseClass(tasks'[t].cap[1].val[1]) = {"invalid"}
           /\ tasks'[t].result = tasks'[t].cap
           /\ checkers' = checkers
           /\ prerequest_calls' = prerequest_calls]_vars

\* C31 witness: "*" was rejected by the pattern and is done with its Invalid
\* Response while the checker has sent one request, the probe of the other
\* query of the run
C31_Witness ==
  \E t, u \in QueryTaskIds :
     /\ GitLabRejects(t)
     /\ QueryOf(t) = <<"*">>
     /\ ReturnedResponse(t)
     /\ ResponseClass(ResponseOf(t)) = {"invalid"}
     /\ ResponseOf(t).message = GitLab_INVALID_MESSAGE
     /\ PlatformOf(u) = "GITLAB" /\ tasks[u].pc = "probe"
     /\ checkers["GITLAB"].request_count = 1
     /\ ~checkers["GITLAB"].prerequest_sent /\ checkers["GITLAB"].token = None

\* C32: whenever a coroutine can run, a checker whose prerequest_sent is not
\* set holds no token: its cache is (FALSE, None) before a prerequest() has
\* returned, and (TRUE, None) or (TRUE, a token) after, never (FALSE, a token).
C32_TokenCacheStates ==
  \A p \in Platforms :
     /\ ~checkers[p].prerequest_sent => checkers[p].token = None
     /\ checkers[p].token.some => checkers[p].prerequest_sent
     /\ checkers[p].prerequest_sent <=>
           \E t \in TaskIds : /\ PlatformOf(t) = p
                              /\ tasks[t].fetched
                              /\ tasks[t].got # <<>>
                              /\ tasks[t].got[1].exc # "ClientError"

\* C32 witness: two coroutines share a checker; the prerequest() of one has
\* returned None, the checker holds (TRUE, None), and the other, still waiting
\* for its own prerequest(), can tell that state from the (FALSE, None) it saw
\* when it called get_token()
C32_Witness ==
  \E t, u \in TaskIds :
     /\ PlatformOf(t) = PlatformOf(u)
     /\ tasks[t].fetched /\ tasks[t].got # <<>> /\ tasks[t].got[1].exc = "QueryError"
     /\ tasks[u].fetched /\ tasks[u].pc = "prerequest"
     /\ checkers[PlatformOf(t)].prerequest_sent
     /\ checkers[PlatformOf(t)].token = None

\* the prerequest() awaited by t raises in this step
PrerequestRaises(t) ==
  /\ t \in 1..Len(tasks)
  /\ tasks[t].pc = "prerequest"
  /\ tasks'[t].pc = "done"
  /\ tasks'[t].got # <<>>
  /\ tasks'[t].got[1].exc = "ClientError"
\* a prerequest() on the checker of t has raised before, none has returned,
\* and t enters get_token() in this step
CallsAfterRaise(t) ==
  /\ t \in 1..Len(tasks)
  /\ tasks[t].pc = "pending"
  /\ tasks'[t].pc # "pending"
  /\ \E u \in 1..Len(tasks) : /\ PlatformOf(u) = PlatformOf(t)
                              /\ tasks[u].got # <<>>
                              /\ tasks[u].got[1].exc = "ClientError"
  /\ \A u \in 1..Len(tasks) : PlatformOf(u) = PlatformOf(t) /\ tasks[u].got # <<>> =>
                                 tasks[u].got[1].exc = "ClientError"

\* C33: when prerequest() raises, get_token() raises the same error and
\* leaves the cache as it was, prerequest_sent not set and the token unchanged;
\* a get_token() call on that checker after nothing but such failures calls
\* prerequest() again.
C33_RaisedFetchNotRecorded ==
  [][\A t \in 1..Len(tasks') :
        /\ PrerequestRaises(t) =>
              /\ ~checkers'[PlatformOf(t)].prerequest_sent
              /\ checkers'[PlatformOf(t)].prerequest_sent
                    = checkers[PlatformOf(t)].prerequest_sent
              /\ checkers'[PlatformOf(t)].token = checkers[PlatformOf(t)].token
              /\ tasks'[t].result[1].kind = "raise"
        /\ CallsAfterRaise(t) =>
              /\ tasks'[t].pc = "prerequest"
              /\ tasks'[t].fetched
              /\ prerequest_calls'[PlatformOf(t)] = prerequest_calls[PlatformOf(t)] + 1]_vars

\* C33 witness: the first call's prerequest() raised, the cache is still
\* (FALSE, None), and the second call is waiting for a prerequest() of its own
C33_Witness ==
  /\ Len(tasks) = 2
  /\ tasks[1].got # <<>> /\ tasks[1].got[1].exc = "ClientError"
  /\ tasks[2].pc = "prerequest" /\ tasks[2].fetched
  /\ prerequest_calls[PlatformOf(2)] = 2
  /\ ~checkers[PlatformOf(2)].prerequest_sent
  /\ checkers[PlatformOf(2)].token = None

\* C34: a Response a checker has built carries a link only if it is an
\* Unavailable one: Available, Invalid and Failed Responses have link = None,
\* also those response_unavailable_or_invalid built when it was given a link.
C34_LinkOnlyWhenUnavailable ==
  \A t \in TaskIds :
     \A r \in ResponsesOf(t) :
        /\ r.link.some => ResponseClass(r) = {"unavailable"}
        /\ ResponseClass(r) # {"unavailable"} => r.link = None

\* C34 witness: GitHub.check_username gave response_unavailable_or_invalid the
\* profile link with a message that is not one of the taken-messages, and the
\* Invalid Response it returned has no link
C34_Witness ==
  \E t \in QueryTaskIds :
     /\ PlatformOf(t) = "GITHUB"
     /\ tasks[t].invoked = "check_username"
     /\ tasks[t].reply # <<>>
     /\ tasks[t].reply[1].status = 422
     /\ ReturnedResponse(t)
     /\ ResponseClass(ResponseOf(t)) = {"invalid"}
     /\ ResponseOf(t).link = None

\* the platforms the run was given: the names of -p, in upper case
Selected == {str_upper(platforms[i]) : i \in 1..Len(platforms)}

\* C35: main creates a checker for every platform, and the coroutines it
\* builds are for the selected platforms only: the checker of a platform that
\* was not selected never sends a request, its request_count stays 0, no
\* prerequest() is called on it and its token cache stays (FALSE, None).
C35_UnselectedIdle ==
  /\ [](/\ DOMAIN checkers = Platforms
        /\ \A t \in TaskIds : str_upper(PlatformOf(t)) \in Selected
        /\ \A p \in Platforms \ Selected :
              /\ checkers[p].request_count = 0
              /\ checkers[p].sent = <<>>
              /\ prerequest_calls[p] = 0
              /\ ~checkers[p].prerequest_sent
              /\ checkers[p].token = None)
  /\ [][{str_upper(platforms'[i]) : i \in 1..Len(platforms')} = Selected]_vars

\* C35 witness: in a run given github and GitLab both selected checkers have
\* sent requests, GitHub's a prerequest too, and every task is done, while the
\* checkers of Reddit and of Instagram, which has prerequest, are as created
C35_Witness ==
  /\ Selected = {"GITHUB", "GITLAB"}
  /\ tasks # <<>>
  /\ \A t \in TaskIds : tasks[t].pc = "done"
  /\ checkers["GITHUB"].request_count >= 2
  /\ prerequest_calls["GITHUB"] >= 1
  /\ checkers["GITLAB"].request_count >= 1
  /\ checkers["REDDIT"] = NewChecker
  /\ checkers["INSTAGRAM"] = NewChecker

====
